---------------------------- MODULE Spec2Model ----------------------------
(***************************************************************************)
(* Column-family emulation over a flat ordered key-value engine            *)
(* (components/engine_agate): the key codec, the engine facade with its    *)
(* point operations, range delete and bounded cursor, the snapshot and the *)
(* write batch.  Bytes are naturals 0..255, byte strings are sequences of  *)
(* bytes, family names are byte strings (the bytes of the UTF-8 name).     *)
(***************************************************************************)
EXTENDS Naturals, Sequences, FiniteSets

(***************************************************************************)
(* Bounds of the model.                                                    *)
(***************************************************************************)
\* longest logical key handed to the codec
MaxCodecKeyLen == 3
\* longest generated family name handed to the codec
MaxCfLen == 3

(***************************************************************************)
(* Byte strings.                                                           *)
(***************************************************************************)
SeqsUpTo(S, n) == UNION {[1..m -> S] : m \in 0..n}

Min(a, b) == IF a < b THEN a ELSE b

\* Rust's Ord on byte slices: lexicographic, a proper prefix sorts first.
LexLess(a, b) ==
    \/ \E i \in 1..Min(Len(a), Len(b)) :
           /\ \A j \in 1..(i - 1) : a[j] = b[j]
           /\ a[i] < b[i]
    \/ /\ Len(a) < Len(b)
       /\ \A j \in 1..Len(a) : a[j] = b[j]

LexLeq(a, b) == a = b \/ LexLess(a, b)

\* Option<T>
None == [some |-> FALSE, v |-> <<>>]
Some(x) == [some |-> TRUE, v |-> x]

(***************************************************************************)
(* utils.rs: the key codec.                                                *)
(***************************************************************************)
\* "@!@"
DELIMITER == <<64, 33, 64>>

\* engine_traits::CF_DEFAULT, "default"
CF_DEFAULT == <<100, 101, 102, 97, 117, 108, 116>>

\* "cf", the family the repository's tests declare
CF_TEST == <<99, 102>>

\* mutants of add_cf_prefix: the key before the prefix; the delimiter left out
add_cf_prefix_swapped(key, cf_name) ==
    LET name == IF cf_name.some THEN cf_name.v ELSE CF_DEFAULT
    IN  key \o (name \o DELIMITER)

add_cf_prefix_no_delimiter(key, cf_name) ==
    LET name == IF cf_name.some THEN cf_name.v ELSE CF_DEFAULT
    IN  name \o key

\* mutant of add_cf_prefix: an absent family is taken for "cf"
add_cf_prefix_absent_as_cf(key, cf_name) ==
    (IF cf_name.some THEN cf_name.v ELSE CF_TEST) \o DELIMITER \o key

add_cf_prefix(key, cf_name) ==
    LET name == IF cf_name.some THEN cf_name.v ELSE CF_DEFAULT
    IN  (name \o DELIMITER) \o key

\* std::str::from_utf8(..).is_ok(), for strings whose bytes are ASCII or 0xFF:
\* an ASCII byte is valid anywhere, 0xFF is valid nowhere.
from_utf8_ok(s) == \A i \in 1..Len(s) : s[i] < 128

\* whether pat occurs in s at index i (1-based)
MatchAt(s, pat, i) ==
    /\ i + Len(pat) - 1 <= Len(s)
    /\ \A j \in 1..Len(pat) : s[i + j - 1] = pat[j]

\* index of the first occurrence of pat in s, 0 when there is none
FindFirst(s, pat) ==
    IF \E i \in 1..Len(s) : MatchAt(s, pat, i)
    THEN CHOOSE i \in 1..Len(s) :
             /\ MatchAt(s, pat, i)
             /\ \A j \in 1..(i - 1) : ~MatchAt(s, pat, j)
    ELSE 0

\* str::split(pat).collect::<Vec<_>>(): the pieces between the non-overlapping
\* occurrences of pat, found left to right; always at least one piece.
RECURSIVE Split(_, _)
Split(s, pat) ==
    LET i == FindFirst(s, pat)
    IN  IF i = 0
        THEN <<s>>
        ELSE <<SubSeq(s, 1, i - 1)>> \o Split(SubSeq(s, i + Len(pat), Len(s)), pat)

\* [&str]::concat()
RECURSIVE Concat(_)
Concat(ss) == IF ss = <<>> THEN <<>> ELSE Head(ss) \o Concat(Tail(ss))

\* get_cf_and_key: ok = FALSE is the panic of from_utf8(..).unwrap().
get_cf_and_key(key_with_cf) ==
    IF ~from_utf8_ok(key_with_cf)
    THEN [ok |-> FALSE, cf |-> <<>>, key |-> <<>>]
    ELSE LET key_vec == Split(key_with_cf, DELIMITER)
         IN  [ok |-> TRUE, cf |-> Head(key_vec), key |-> Concat(Tail(key_vec))]

(***************************************************************************)
(* The transactional engine (agatedb), as the layer consumes it: a store   *)
(* is a function from the physical keys present to their values; a         *)
(* transaction works on its own copy of the store as of its creation and   *)
(* replaces the store when it commits; a native cursor walks the physical  *)
(* keys of its transaction's view in byte order.                           *)
(***************************************************************************)
EmptyStore == [pk \in {} |-> 0]

\* Transaction::get: Ok(item) or Err(KeyNotFound)
txn_get(s, pk) == IF pk \in DOMAIN s THEN Some(s[pk]) ELSE None

\* Transaction::set
txn_set(s, pk, v) == [x \in DOMAIN s \cup {pk} |-> IF x = pk THEN v ELSE s[x]]

\* Transaction::delete
txn_delete(s, pk) == [x \in DOMAIN s \ {pk} |-> s[x]]

\* an engine fault injected into one handler call: the at-th set/delete call
\* of the handler returns an error (0: none does), or the commit does
NoFault == [at |-> 0, commit |-> FALSE]

\* Iterator::seek: the smallest physical key >= target, or off the end
iter_seek(s, target) ==
    LET cand == {pk \in DOMAIN s : LexLeq(target, pk)}
    IN  IF cand = {} THEN None
        ELSE Some(CHOOSE pk \in cand : \A q \in cand : LexLeq(pk, q))

\* Iterator::next
iter_next(s, pos) ==
    LET cand == {pk \in DOMAIN s : LexLess(pos.v, pk)}
    IN  IF cand = {} THEN None
        ELSE Some(CHOOSE pk \in cand : \A q \in cand : LexLeq(pk, q))

\* Iterator::prev
iter_prev(s, pos) ==
    LET cand == {pk \in DOMAIN s : LexLess(pk, pos.v)}
    IN  IF cand = {} THEN None
        ELSE Some(CHOOSE pk \in cand : \A q \in cand : LexLeq(q, pk))

(***************************************************************************)
(* engine.rs: AgateEngine.  A handler is an operator from the engine (its  *)
(* store d and its declared families names) and the arguments to the       *)
(* outcome: the store afterwards, the result ("ok", "cf_err" for           *)
(* Error::CFName, "engine_err" for Error::Engine), the value returned and  *)
(* whether a transaction was opened or used.                               *)
(***************************************************************************)
\* AgateEngine::new: the declared set is "default" plus the listed names
new_cf_names(cfs) == {CF_DEFAULT} \cup {cfs[i] : i \in 1..Len(cfs)}

\* mutant of check_cf_exist: every name passes
check_cf_exist_any(names, cf) == TRUE

\* check_cf_exist(cf).is_ok()
check_cf_exist(names, cf) == cf \in names

Outcome(d, res, out, txn) == [db |-> d, res |-> res, out |-> out, txn |-> txn]

\* Peekable::get_value_opt
get_value_opt(d, key) ==
    LET k == add_cf_prefix(key, None)
    IN  Outcome(d, "ok", txn_get(d, k), TRUE)

\* Peekable::get_value_cf_opt
get_value_cf_opt(d, names, cf, key) ==
    IF ~check_cf_exist(names, cf)
    THEN Outcome(d, "cf_err", None, FALSE)
    ELSE LET k == add_cf_prefix(key, Some(cf))
         IN  Outcome(d, "ok", txn_get(d, k), TRUE)

\* the body shared by put and put_cf once the physical key is built:
\* new_transaction(true), txn.set(..)?, txn.commit()
SetAndCommit(d, k, value, f) ==
    IF f.at = 1 THEN Outcome(d, "engine_err", None, TRUE)
    ELSE IF f.commit THEN Outcome(d, "engine_err", None, TRUE)
    ELSE Outcome(txn_set(d, k, value), "ok", None, TRUE)

\* mutant of DeleteAndCommit: the transaction is dropped without a commit
DeleteAndCommit_uncommitted(d, k, f) == Outcome(d, "ok", None, TRUE)

\* the body shared by delete and delete_cf: new_transaction(true),
\* txn.delete(..)?, txn.commit()
DeleteAndCommit(d, k, f) ==
    IF f.at = 1 THEN Outcome(d, "engine_err", None, TRUE)
    ELSE IF f.commit THEN Outcome(d, "engine_err", None, TRUE)
    ELSE Outcome(txn_delete(d, k), "ok", None, TRUE)

\* SyncMutable::put
put(d, key, value, f) == SetAndCommit(d, add_cf_prefix(key, None), value, f)

\* mutant of put_cf: the family is checked but the key is built without it
put_cf_to_default(d, names, cf, key, value, f) ==
    IF ~check_cf_exist(names, cf)
    THEN Outcome(d, "cf_err", None, FALSE)
    ELSE SetAndCommit(d, add_cf_prefix(key, None), value, f)

\* SyncMutable::put_cf
put_cf(d, names, cf, key, value, f) ==
    IF ~check_cf_exist(names, cf)
    THEN Outcome(d, "cf_err", None, FALSE)
    ELSE SetAndCommit(d, add_cf_prefix(key, Some(cf)), value, f)

\* SyncMutable::delete
delete(d, key, f) == DeleteAndCommit(d, add_cf_prefix(key, None), f)

\* SyncMutable::delete_cf
delete_cf(d, names, cf, key, f) ==
    IF ~check_cf_exist(names, cf)
    THEN Outcome(d, "cf_err", None, FALSE)
    ELSE DeleteAndCommit(d, add_cf_prefix(key, Some(cf)), f)

(***************************************************************************)
(* engine.rs: AgateEngineIterator.  A cursor holds the native cursor's     *)
(* position iter (None: not positioned), the view of the transaction it    *)
(* was created from, the caller's bounds opts and its family cf_name.      *)
(***************************************************************************)
IterOptions(lower, upper) == [lower |-> lower, upper |-> upper]

Cursor(view, opts, cf_name) ==
    [iter |-> None, view |-> view, opts |-> opts, cf_name |-> cf_name]

\* the match on self.cf_name in valid()
cf_name_match(cf_name, decoded_cf) ==
    IF cf_name.some THEN decoded_cf = cf_name.v ELSE decoded_cf = CF_DEFAULT

\* mutant of valid: the upper bound is inclusive
valid_upper_inclusive(it) ==
    IF ~it.iter.some THEN FALSE
    ELSE LET d == get_cf_and_key(it.iter.v)
         IN  IF ~cf_name_match(it.cf_name, d.cf) THEN FALSE
             ELSE IF /\ it.opts.lower.some
                     /\ it.opts.lower.v # <<>>
                     /\ LexLess(d.key, it.opts.lower.v) THEN FALSE
             ELSE IF /\ it.opts.upper.some
                     /\ it.opts.upper.v # <<>>
                     /\ LexLess(it.opts.upper.v, d.key) THEN FALSE
             ELSE TRUE

\* AgateEngineIterator::valid
valid(it) ==
    IF ~it.iter.some THEN FALSE
    ELSE LET d == get_cf_and_key(it.iter.v)
         IN  IF ~cf_name_match(it.cf_name, d.cf) THEN FALSE
             ELSE IF /\ it.opts.lower.some
                     /\ it.opts.lower.v # <<>>
                     /\ LexLess(d.key, it.opts.lower.v) THEN FALSE
             ELSE IF /\ it.opts.upper.some
                     /\ it.opts.upper.v # <<>>
                     /\ ~LexLess(d.key, it.opts.upper.v) THEN FALSE
             ELSE TRUE

\* AgateEngineIterator::key (called where valid() holds)
key_of(it) == get_cf_and_key(it.iter.v).key

\* AgateEngineIterator::value (called where valid() holds)
value_of(it) == it.view[it.iter.v]

Moved(it, res, out) == [it |-> it, res |-> res, out |-> out]

\* AgateEngineIterator::next
\* mutant of next: the native cursor is not moved
next_stalling(it) ==
    IF ~it.iter.some THEN Moved(it, "engine_err", FALSE)
    ELSE Moved(it, "ok", valid(it))

next(it) ==
    IF ~it.iter.some THEN Moved(it, "engine_err", FALSE)
    ELSE LET it1 == [it EXCEPT !.iter = iter_next(it.view, it.iter)]
         IN  Moved(it1, "ok", valid(it1))

\* AgateEngineIterator::prev
prev(it) ==
    IF ~it.iter.some THEN Moved(it, "engine_err", FALSE)
    ELSE LET it1 == [it EXCEPT !.iter = iter_prev(it.view, it.iter)]
         IN  Moved(it1, "ok", valid(it1))

\* mutant of seek_key: the answer is always false
seek_key_unanswered(it, key) ==
    Moved([it EXCEPT !.iter = iter_seek(it.view, add_cf_prefix(key, it.cf_name))],
          "ok", FALSE)

\* seek(SeekKey::Key(key))
seek_key(it, key) ==
    LET it1 == [it EXCEPT !.iter = iter_seek(it.view, add_cf_prefix(key, it.cf_name))]
    IN  Moved(it1, "ok", valid(it1))

\* seek(SeekKey::Start)
seek_start(it) ==
    LET it1 == [it EXCEPT !.iter = iter_seek(it.view, add_cf_prefix(<<>>, it.cf_name))]
    IN  Moved(it1, "ok", valid(it1))

\* the while loop of seek(SeekKey::End): the cursor and last_key when it ends
RECURSIVE seek_end_loop(_, _)
seek_end_loop(it, last_key) ==
    IF valid(it)
    THEN seek_end_loop(next(it).it, key_of(it))
    ELSE [it |-> it, last_key |-> last_key]

\* seek(SeekKey::End)
seek_end(it) ==
    LET first == seek_start(it)
    IN  IF ~first.out THEN Moved(first.it, "ok", FALSE)
        ELSE LET l == seek_end_loop(first.it, <<>>)
             IN  seek_key(l.it, l.last_key)

\* seek_for_prev(SeekKey::Key(key))
seek_for_prev_key(it, key) ==
    LET s == seek_key(it, key)
    IN  IF ~s.out THEN seek_end(s.it)
        ELSE LET it1 == IF key_of(s.it) # key THEN prev(s.it).it ELSE s.it
             IN  Moved(it1, "ok", valid(it1))

\* SeekKey
SeekStart == [kind |-> "Start", key |-> <<>>]
SeekEnd == [kind |-> "End", key |-> <<>>]
SeekTo(key) == [kind |-> "Key", key |-> key]

\* AgateEngineIterator::seek
seek(it, sk) ==
    IF sk.kind = "Start" THEN seek_start(it)
    ELSE IF sk.kind = "End" THEN seek_end(it)
    ELSE seek_key(it, sk.key)

\* AgateEngineIterator::seek_for_prev
seek_for_prev(it, sk) ==
    IF sk.kind = "Start" THEN seek(it, SeekStart)
    ELSE IF sk.kind = "End" THEN seek(it, SeekEnd)
    ELSE seek_for_prev_key(it, sk.key)

\* Iterable::iterator_opt of the engine: a cursor on a new read transaction
iterator_opt(d, opts) ==
    [it |-> Some(Cursor(d, opts, None)), res |-> "ok", txn |-> TRUE]

\* Iterable::iterator_cf_opt of the engine
iterator_cf_opt(d, names, cf, opts) ==
    IF ~check_cf_exist(names, cf)
    THEN [it |-> None, res |-> "cf_err", txn |-> FALSE]
    ELSE [it |-> Some(Cursor(d, opts, Some(cf))), res |-> "ok", txn |-> TRUE]

(***************************************************************************)
(* engine_traits::Iterable::scan / scan_cf, which the facade's range       *)
(* delete runs: a cursor bounded by [start_key, end_key) is positioned     *)
(* with seek(Key(start_key)) and advanced with next while the callback     *)
(* returns Ok(true).  budget is Some(n) for a callback whose n-th call      *)
(* stops the scan (it returns Ok(false) or an error), None for one that    *)
(* never does.                                                             *)
(***************************************************************************)
RECURSIVE scan_loop(_, _, _)
scan_loop(it, remained, budget) ==
    IF ~remained \/ (budget.some /\ budget.v = 0) THEN <<>>
    ELSE LET n == next(it)
             left == IF budget.some THEN Some(budget.v - 1) ELSE None
         IN  <<[key |-> key_of(it), value |-> value_of(it)]>>
                 \o scan_loop(n.it, n.out, left)

scan_impl(it, start_key, budget) ==
    LET s == seek_key(it, start_key)
    IN  scan_loop(s.it, s.out, budget)

\* a callback that never stops the scan
Unlimited == None

\* Iterable::scan on the engine: the entries handed to the callback
scan(d, start_key, end_key, budget) ==
    scan_impl(iterator_opt(d, IterOptions(Some(start_key), Some(end_key))).it.v,
              start_key, budget)

\* Iterable::scan_cf on the engine (the family is known to exist)
scan_cf(d, names, cf, start_key, end_key, budget) ==
    scan_impl(iterator_cf_opt(d, names, cf,
                              IterOptions(Some(start_key), Some(end_key))).it.v,
              start_key, budget)

\* the same scan with what it does to its cursor: visited are the entries
\* handed to the callback, nexts the number of next() calls made, it the
\* cursor when the scan returns.  The callback answers Ok(false) at its
\* budget-th call, which ends the loop before next() is called.
Scanned(it, visited, nexts) == [it |-> it, visited |-> visited, nexts |-> nexts]

RECURSIVE scan_trace_loop(_, _, _, _, _)
scan_trace_loop(it, remained, budget, visited, nexts) ==
    IF ~remained THEN Scanned(it, visited, nexts)
    ELSE LET handed == Append(visited, [key |-> key_of(it), value |-> value_of(it)])
         IN  IF budget.some /\ Len(handed) >= budget.v
             THEN Scanned(it, handed, nexts)
             ELSE LET n == next(it)
                  IN  scan_trace_loop(n.it, n.out, budget, handed, nexts + 1)

scan_trace(it, start_key, budget) ==
    LET s == seek_key(it, start_key)
    IN  scan_trace_loop(s.it, s.out, budget, <<>>, 0)

(***************************************************************************)
(* engine.rs: SyncMutable::delete_range / delete_range_cf.                 *)
(***************************************************************************)
RECURSIVE DeleteAll(_, _)
DeleteAll(s, pks) ==
    IF pks = <<>> THEN s ELSE DeleteAll(txn_delete(s, Head(pks)), Tail(pks))

\* the scan with the deleting callback, then the commit.  The callback fails
\* at its f.at-th call (the txn.delete of that call returns an error), which
\* ends the scan; the scan's result is dropped and the commit follows.
ScanDeleteCommit(d, visited, cf_name, f) ==
    LET applied == IF f.at = 0 \/ f.at > Len(visited)
                   THEN visited
                   ELSE SubSeq(visited, 1, f.at - 1)
        pks == [i \in 1..Len(applied) |-> add_cf_prefix(applied[i].key, cf_name)]
    IN  IF f.commit THEN Outcome(d, "engine_err", None, TRUE)
        ELSE Outcome(DeleteAll(d, pks), "ok", None, TRUE)

\* mutant of delete_range: the order of the range's ends is not checked
delete_range_unchecked(d, begin_key, end_key, f) ==
    ScanDeleteCommit(d, scan(d, begin_key, end_key, Unlimited), None, f)

\* SyncMutable::delete_range
delete_range(d, begin_key, end_key, f) ==
    IF LexLess(end_key, begin_key)
    THEN Outcome(d, "engine_err", None, FALSE)
    ELSE ScanDeleteCommit(d, scan(d, begin_key, end_key, Unlimited), None, f)

\* SyncMutable::delete_range_cf
delete_range_cf(d, names, cf, begin_key, end_key, f) ==
    IF LexLess(end_key, begin_key)
    THEN Outcome(d, "engine_err", None, FALSE)
    ELSE IF ~check_cf_exist(names, cf)
    THEN Outcome(d, "cf_err", None, FALSE)
    ELSE ScanDeleteCommit(d, scan_cf(d, names, cf, begin_key, end_key, Unlimited),
                          Some(cf), f)

(***************************************************************************)
(* snapshot.rs: AgateSnapshot, a read transaction opened at creation and   *)
(* a copy of the engine's declared families.                               *)
(***************************************************************************)
\* mutant of AgateSnapshot::new: the transaction does not hold the store
snapshot_new_blank(d, names) == [txn |-> EmptyStore, cf_names |-> names]

\* AgateSnapshot::new
snapshot_new(d, names) == [txn |-> d, cf_names |-> names]

\* Peekable::get_value_opt of the snapshot
snap_get_value_opt(sn, key) ==
    LET k == add_cf_prefix(key, None)
    IN  Outcome(sn.txn, "ok", txn_get(sn.txn, k), TRUE)

\* Peekable::get_value_cf_opt of the snapshot
snap_get_value_cf_opt(sn, cf, key) ==
    IF ~check_cf_exist(sn.cf_names, cf)
    THEN Outcome(sn.txn, "cf_err", None, FALSE)
    ELSE LET k == add_cf_prefix(key, Some(cf))
         IN  Outcome(sn.txn, "ok", txn_get(sn.txn, k), TRUE)

\* Iterable::iterator_opt of the snapshot: a cursor on the snapshot's transaction
snap_iterator_opt(sn, opts) ==
    [it |-> Some(Cursor(sn.txn, opts, None)), res |-> "ok", txn |-> TRUE]

\* Iterable::iterator_cf_opt of the snapshot
snap_iterator_cf_opt(sn, cf, opts) ==
    IF ~check_cf_exist(sn.cf_names, cf)
    THEN [it |-> None, res |-> "cf_err", txn |-> FALSE]
    ELSE [it |-> Some(Cursor(sn.txn, opts, Some(cf))), res |-> "ok", txn |-> TRUE]

(***************************************************************************)
(* write_batch.rs: AgateWriteBatch.                                        *)
(***************************************************************************)
\* WriteBatchOpType::Put / Delete / DeleteRange
OpPut(key, value, cf) ==
    [type |-> "Put", key |-> key, value |-> value, end_key |-> <<>>, cf |-> cf]
OpDelete(key, cf) ==
    [type |-> "Delete", key |-> key, value |-> 0, end_key |-> <<>>, cf |-> cf]
OpDeleteRange(begin_key, end_key, cf) ==
    [type |-> "DeleteRange", key |-> begin_key, value |-> 0, end_key |-> end_key,
     cf |-> cf]

\* AgateWriteBatch::new
EmptyBatch == [operations |-> <<>>, save_points |-> <<>>]

\* Mutable::put, put_cf, delete, delete_cf, delete_range, delete_range_cf of
\* the batch: push one record
wb_put(b, key, value) ==
    [b EXCEPT !.operations = Append(@, OpPut(key, value, None))]
wb_put_cf(b, cf, key, value) ==
    [b EXCEPT !.operations = Append(@, OpPut(key, value, Some(cf)))]
wb_delete(b, key) ==
    [b EXCEPT !.operations = Append(@, OpDelete(key, None))]
wb_delete_cf(b, cf, key) ==
    [b EXCEPT !.operations = Append(@, OpDelete(key, Some(cf)))]
wb_delete_range(b, begin_key, end_key) ==
    [b EXCEPT !.operations = Append(@, OpDeleteRange(begin_key, end_key, None))]
wb_delete_range_cf(b, cf, begin_key, end_key) ==
    [b EXCEPT !.operations = Append(@, OpDeleteRange(begin_key, end_key, Some(cf)))]

\* WriteBatch::count
count(b) == Len(b.operations)

\* WriteBatch::clear
\* mutant of clear: the save points are left on the stack
clear_keeps_save_points(b) == [b EXCEPT !.operations = <<>>]

clear(b) == [operations |-> <<>>, save_points |-> <<>>]

\* what merge leaves: the batch, the batch src it was given (held by the
\* call until it returns and drops it), the Result
Merged(b, src, res) == [wb |-> b, src |-> src, res |-> res]

\* mutant of merge: the records of src are put before the batch's own
merge_prepended(b, src) ==
    Merged([b EXCEPT !.operations = src.operations \o @], src, "ok")

\* WriteBatch::merge: operations.extend(src.operations.clone())
merge(b, src) ==
    Merged([b EXCEPT !.operations = @ \o src.operations], src, "ok")

\* WriteBatchExt::WRITE_BATCH_MAX_KEYS
WRITE_BATCH_MAX_KEYS == 128

\* WriteBatch::is_empty
is_empty(b) == b.operations = <<>>

\* mutant of should_write_to_engine: true from the threshold on
should_write_to_engine_at(b) == count(b) >= WRITE_BATCH_MAX_KEYS

\* WriteBatch::should_write_to_engine
should_write_to_engine(b) == count(b) > WRITE_BATCH_MAX_KEYS

\* WriteBatch::set_save_point
set_save_point(b) == [b EXCEPT !.save_points = Append(@, Len(b.operations))]

\* the outcome of a save-point call: the batch afterwards and the result
Saved(b, res) == [wb |-> b, res |-> res]

\* mutant of pop_save_point: an empty marker stack is not an error
pop_save_point_lenient(b) ==
    Saved([b EXCEPT !.save_points = SubSeq(@, 1, Len(@) - 1)], "ok")

\* WriteBatch::pop_save_point
pop_save_point(b) ==
    IF b.save_points = <<>> THEN Saved(b, "engine_err")
    ELSE Saved([b EXCEPT !.save_points = SubSeq(@, 1, Len(@) - 1)], "ok")

\* Vec::truncate(len): no effect when len is not below the length
truncate(v, len) == IF len < Len(v) THEN SubSeq(v, 1, len) ELSE v

\* mutant of rollback_to_save_point: the marker is popped, the records stay
rollback_to_save_point_kept(b) == pop_save_point(b)

\* WriteBatch::rollback_to_save_point
rollback_to_save_point(b) ==
    IF b.save_points = <<>> THEN Saved(b, "engine_err")
    ELSE LET save_point == b.save_points[Len(b.save_points)]
         IN  Saved([operations |-> truncate(b.operations, save_point),
                    save_points |-> SubSeq(b.save_points, 1, Len(b.save_points) - 1)],
                   "ok")

\* the closure is_valid of write_opt's DeleteRange arm
is_valid(pos, begin_key, end_key, cf) ==
    IF ~pos.some THEN FALSE
    ELSE IF ~cf_name_match(cf, get_cf_and_key(pos.v).cf) THEN FALSE
    ELSE IF begin_key # <<>> /\ LexLess(pos.v, begin_key) THEN FALSE
    ELSE IF end_key # <<>> /\ ~LexLess(pos.v, end_key) THEN FALSE
    ELSE TRUE

Replayed(pending, res, calls) == [pending |-> pending, res |-> res, calls |-> calls]

\* the while loop of the DeleteRange arm: view is what the cursor created from
\* the transaction iterates, pending the transaction's writes so far, calls
\* the number of set/delete calls made so far
RECURSIVE delete_range_loop(_, _, _, _, _, _, _, _)
delete_range_loop(view, pos, begin_key, end_key, cf, pending, calls, f) ==
    IF ~is_valid(pos, begin_key, end_key, cf) THEN Replayed(pending, "ok", calls)
    ELSE IF calls + 1 = f.at THEN Replayed(pending, "engine_err", calls + 1)
    ELSE delete_range_loop(view, iter_next(view, pos), begin_key, end_key, cf,
                           txn_delete(pending, pos.v), calls + 1, f)

\* one arm of the match in write_opt
replay_op(op, pending, calls, f) ==
    IF op.type = "Put"
    THEN IF calls + 1 = f.at THEN Replayed(pending, "engine_err", calls + 1)
         ELSE Replayed(txn_set(pending, add_cf_prefix(op.key, op.cf), op.value),
                       "ok", calls + 1)
    ELSE IF op.type = "Delete"
    THEN IF calls + 1 = f.at THEN Replayed(pending, "engine_err", calls + 1)
         ELSE Replayed(txn_delete(pending, add_cf_prefix(op.key, op.cf)),
                       "ok", calls + 1)
    ELSE IF LexLess(op.end_key, op.key)
         THEN Replayed(pending, "engine_err", calls)
         ELSE LET begin_key == add_cf_prefix(op.key, op.cf)
                  end_key == add_cf_prefix(op.end_key, op.cf)
              IN  delete_range_loop(pending, iter_seek(pending, begin_key),
                                    begin_key, end_key, op.cf, pending, calls, f)

\* mutant of replay: the records are replayed last first
RECURSIVE replay_last_first(_, _, _, _)
replay_last_first(ops, pending, calls, f) ==
    IF ops = <<>> THEN Replayed(pending, "ok", calls)
    ELSE LET r == replay_op(ops[Len(ops)], pending, calls, f)
         IN  IF r.res # "ok" THEN r
             ELSE replay_last_first(SubSeq(ops, 1, Len(ops) - 1), r.pending, r.calls, f)

\* the for loop of write_opt
RECURSIVE replay(_, _, _, _)
replay(ops, pending, calls, f) ==
    IF ops = <<>> THEN Replayed(pending, "ok", calls)
    ELSE LET r == replay_op(Head(ops), pending, calls, f)
         IN  IF r.res # "ok" THEN r
             ELSE replay(Tail(ops), r.pending, r.calls, f)

\* mutant of write_opt: what was replayed before a failure stays in the store
write_opt_partial(d, b, f) ==
    LET r == replay(b.operations, d, 0, f)
    IN  IF r.res # "ok" THEN Outcome(r.pending, "engine_err", None, TRUE)
        ELSE IF f.commit THEN Outcome(r.pending, "engine_err", None, TRUE)
        ELSE Outcome(r.pending, "ok", None, TRUE)

\* WriteBatch::write_opt: new_transaction(true), the replay, txn.commit()
write_opt(d, b, f) ==
    LET r == replay(b.operations, d, 0, f)
    IN  IF r.res # "ok" THEN Outcome(d, "engine_err", None, TRUE)
        ELSE IF f.commit THEN Outcome(d, "engine_err", None, TRUE)
        ELSE Outcome(r.pending, "ok", None, TRUE)

(***************************************************************************)
(* sst.rs: AgateSstWriter.  The writer holds the entries added to its      *)
(* TableBuilder, its family and the last physical key it accepted (empty:  *)
(* none yet).  An entry is a physical key, a value and the VALUE_DELETE    *)
(* bit of its meta.                                                        *)
(***************************************************************************)
Entry(key, value, deleted) == [key |-> key, value |-> value, deleted |-> deleted]

\* AgateSstWriterBuilder::build, after set_cf(cf) or without
sst_build(cf_name) == [entries |-> <<>>, cf_name |-> cf_name, last_key |-> <<>>]

Written(w, res) == [w |-> w, res |-> res]

\* mutant of sst_put: a key equal to the last one is accepted
sst_put_nonstrict(w, key, val) ==
    LET k == add_cf_prefix(key, w.cf_name)
    IN  IF w.last_key # <<>> /\ LexLess(k, w.last_key) THEN Written(w, "engine_err")
        ELSE Written([w EXCEPT !.last_key = k,
                               !.entries = Append(@, Entry(k, val, FALSE))], "ok")

\* SstWriter::put
sst_put(w, key, val) ==
    LET k == add_cf_prefix(key, w.cf_name)
    IN  IF w.last_key # <<>> /\ LexLeq(k, w.last_key) THEN Written(w, "engine_err")
        ELSE Written([w EXCEPT !.last_key = k,
                               !.entries = Append(@, Entry(k, val, FALSE))], "ok")

\* SstWriter::delete
sst_delete(w, key) ==
    LET k == add_cf_prefix(key, w.cf_name)
    IN  IF w.last_key # <<>> /\ LexLeq(k, w.last_key) THEN Written(w, "engine_err")
        ELSE Written([w EXCEPT !.last_key = k,
                               !.entries = Append(@, Entry(k, 0, TRUE))], "ok")

\* SstWriter::finish: the table holds the entries added to the builder
sst_finish(w) == w.entries

(***************************************************************************)
(* agatedb's TableIterator over a table t (the sequence of its entries in  *)
(* key order): a position 1..Len(t) is an entry, 0 is before the first     *)
(* entry (and a cursor not positioned yet), Len(t) + 1 is past the last.   *)
(* Stepping back from past the last entry lands on the last entry.         *)
(***************************************************************************)
table_valid(t, pos) == pos >= 1 /\ pos <= Len(t)

\* TableIterator::seek: the first entry whose key is >= target
table_seek(t, target) ==
    LET cand == {i \in 1..Len(t) : LexLeq(target, t[i].key)}
    IN  IF cand = {} THEN Len(t) + 1
        ELSE CHOOSE i \in cand : \A j \in cand : i <= j

table_next(t, pos) == pos + 1
table_prev(t, pos) == pos - 1

(***************************************************************************)
(* sst.rs: AgateSstReader and AgateSstReaderIterator.  The cursor holds    *)
(* the native cursor's position iter on its table, the caller's bounds     *)
(* opts (which it never reads), its family cf_name and current_value.      *)
(***************************************************************************)
SstCursor(t, opts, cf_name) ==
    [iter |-> 0, table |-> t, opts |-> opts, cf_name |-> cf_name, current_value |-> 0]

\* Iterable::iterator_opt / iterator_cf_opt of the reader
sst_iterator_opt(t, opts) == SstCursor(t, opts, None)
sst_iterator_cf_opt(t, cf, opts) == SstCursor(t, opts, Some(cf))

\* mutant of sst_update: a tombstone is not skipped
sst_update_no_skip(c, is_forward) ==
    IF ~table_valid(c.table, c.iter) THEN Moved(c, "ok", FALSE)
    ELSE LET e == c.table[c.iter]
         IN  IF ~cf_name_match(c.cf_name, get_cf_and_key(e.key).cf)
             THEN Moved(c, "ok", FALSE)
             ELSE Moved([c EXCEPT !.current_value = e.value], "ok", TRUE)

\* AgateSstReaderIterator::update
RECURSIVE sst_update(_, _)
sst_update(c, is_forward) ==
    IF ~table_valid(c.table, c.iter) THEN Moved(c, "ok", FALSE)
    ELSE LET e == c.table[c.iter]
         IN  IF ~cf_name_match(c.cf_name, get_cf_and_key(e.key).cf)
             THEN Moved(c, "ok", FALSE)
             ELSE IF e.deleted
             THEN sst_update([c EXCEPT !.iter = IF is_forward
                                                THEN table_next(c.table, c.iter)
                                                ELSE table_prev(c.table, c.iter)],
                             is_forward)
             ELSE Moved([c EXCEPT !.current_value = e.value], "ok", TRUE)

\* AgateSstReaderIterator::valid
sst_valid(c) ==
    IF ~table_valid(c.table, c.iter) THEN FALSE
    ELSE cf_name_match(c.cf_name, get_cf_and_key(c.table[c.iter].key).cf)

\* AgateSstReaderIterator::key, value (called where valid() holds)
sst_key(c) == get_cf_and_key(c.table[c.iter].key).key
sst_value(c) == c.current_value

\* AgateSstReaderIterator::next
sst_next(c) ==
    IF ~table_valid(c.table, c.iter) THEN Moved(c, "engine_err", FALSE)
    ELSE sst_update([c EXCEPT !.iter = table_next(c.table, c.iter)], TRUE)

\* AgateSstReaderIterator::prev
sst_prev(c) ==
    IF ~table_valid(c.table, c.iter) THEN Moved(c, "engine_err", FALSE)
    ELSE sst_update([c EXCEPT !.iter = table_prev(c.table, c.iter)], FALSE)

\* seek(SeekKey::Start), seek(SeekKey::Key(key))
sst_seek_start(c) ==
    sst_update([c EXCEPT !.iter = table_seek(c.table, add_cf_prefix(<<>>, c.cf_name))],
               TRUE)
sst_seek_key(c, key) ==
    sst_update([c EXCEPT !.iter = table_seek(c.table, add_cf_prefix(key, c.cf_name))],
               TRUE)

\* the loop of seek(SeekKey::End): next() until it answers false
RECURSIVE sst_seek_end_loop(_)
sst_seek_end_loop(c) ==
    LET n == sst_next(c)
    IN  IF n.res # "ok" \/ ~n.out THEN n ELSE sst_seek_end_loop(n.it)

\* seek(SeekKey::End)
sst_seek_end(c) ==
    LET first == sst_seek_start(c)
    IN  IF ~first.out THEN Moved(first.it, "ok", FALSE)
        ELSE LET l == sst_seek_end_loop(first.it)
             IN  IF l.res # "ok" THEN l
                 ELSE sst_update([l.it EXCEPT !.iter = table_prev(l.it.table, l.it.iter)],
                                 FALSE)

\* AgateSstReaderIterator::seek
sst_seek(c, sk) ==
    IF sk.kind = "Start" THEN sst_seek_start(c)
    ELSE IF sk.kind = "End" THEN sst_seek_end(c)
    ELSE sst_seek_key(c, sk.key)

\* seek_for_prev(SeekKey::Key(key)); key() asserts valid()
sst_seek_for_prev_key(c, key) ==
    LET s == sst_seek_key(c, key)
    IN  IF ~table_valid(s.it.table, s.it.iter) THEN sst_seek_end(s.it)
        ELSE IF ~sst_valid(s.it) THEN Moved(s.it, "panic", FALSE)
        ELSE LET c1 == IF sst_key(s.it) # key THEN sst_prev(s.it).it ELSE s.it
             IN  sst_update(c1, FALSE)

\* AgateSstReaderIterator::seek_for_prev
sst_seek_for_prev(c, sk) ==
    IF sk.kind = "Start" THEN sst_seek(c, SeekStart)
    ELSE IF sk.kind = "End" THEN sst_seek(c, SeekEnd)
    ELSE sst_seek_for_prev_key(c, sk.key)

(***************************************************************************)
(* Inputs of the codec checks.                                             *)
(***************************************************************************)
\* '!', '@' (the delimiter's bytes) and 0xFF (a byte no UTF-8 string holds)
CodecBytes == {33, 64, 255}

CodecKeys == SeqsUpTo(CodecBytes, MaxCodecKeyLen)

ContainsDelimiter(s) == FindFirst(s, DELIMITER) # 0

\* family names: the two the repository uses, and every non-empty name over
\* the delimiter's bytes that does not contain the delimiter
CodecCfs ==
    {CF_DEFAULT, CF_TEST} \cup
    {n \in SeqsUpTo({33, 64}, MaxCfLen) : n # <<>> /\ ~ContainsDelimiter(n)}

\* "a short ASCII identifier": letters, digits, underscore
IsIdentByte(b) ==
    \/ b \in 48..57
    \/ b \in 65..90
    \/ b = 95
    \/ b \in 97..122

IsIdentifier(n) == n # <<>> /\ \A i \in 1..Len(n) : IsIdentByte(n[i])

(***************************************************************************)
(* Inputs of the engine checks.                                            *)
(***************************************************************************)
\* longest logical key of the facade checks
MaxKeyLen == 1
\* longest logical key of the scan checks
MaxScanKeyLen == 3
\* number of distinct values
NumValues == 2
\* most entries the store holds
MaxEntries == 2
\* most records a write batch holds
MaxOps == 1
\* the latest set/delete call of a handler that a fault is injected into
MaxFaultAt == 2
\* most records of a batch in the save-point checks
MaxSaveOps == 3
\* most outstanding save points
MaxSavePoints == 2
\* most records appended after a save point before it is rolled back to
MaxRolled == 2
\* most records of a batch that is merged into another
MaxMerged == 2
\* longest key and most entries of the store in the cursor checks
MaxCurKeyLen == 2
MaxCurEntries == 3
\* most records of a batch in the threshold checks (past WRITE_BATCH_MAX_KEYS)
MaxFill == 130
\* most records of a batch in the replay checks
MaxReplayOps == 3
\* most records of a batch in the interleaving checks
MaxAtomicOps == 2

\* '!' and '@', the delimiter's bytes
KeyBytes == {33, 64}
Keys == SeqsUpTo(KeyBytes, MaxKeyLen)
\* the keys of the snapshot and family checks: "" and runs of '@'
SmallKeys == SeqsUpTo({64}, MaxKeyLen)
ScanKeys == SeqsUpTo(KeyBytes, MaxScanKeyLen)
Values == 1..NumValues
\* family names callers pass: "default" and "cf" (declared or not)
CfArgs == {CF_DEFAULT, CF_TEST}
\* the lists of families an engine is opened with
CfLists == {<<>>, <<CF_TEST>>}
Faults == {[at |-> n, commit |-> FALSE] : n \in 0..MaxFaultAt}
              \cup {[at |-> 0, commit |-> TRUE]}
\* caller's bounds: absent, or a key (the empty key is unbounded)
Bounds(K) == {None} \cup {Some(k) : k \in K}
SeekKeys(K) == {SeekStart, SeekEnd} \cup {SeekTo(k) : k \in K}

VARIABLES
    c_cf,      \* codec check: the family name
    c_key,     \* codec check: the logical key
    c_phase,   \* codec check: "in", "enc", "dec" ("off" in the engine checks)
    c_pk,      \* codec check: add_cf_prefix(c_key, Some(c_cf)) once encoded
    c_dec,     \* codec check: get_cf_and_key(c_pk) once decoded
    cf_names,  \* AgateEngine.cf_names
    db,        \* AgateEngine.agate: the committed store
    snap,      \* the AgateSnapshot in use, if any
    wb,        \* the AgateWriteBatch in use
    it,        \* the AgateEngineIterator in use, if any
    ret,       \* the last handler call: its name, family and outcome
    write_txn, \* the transaction of the write() in progress, if any (kept
               \* with its outcome once the write() has ended)
    sst,       \* the sorted-table side: the AgateSstWriter in use (w), the
               \* table the reader has open (table), its cursor (it)
    kv,        \* history: what the caller last put and did not delete, by
               \* <<cf, key>> (kept by the point checks)
    at_snap    \* history: the committed store when the snapshot was created

codec_vars == <<c_cf, c_key, c_phase, c_pk, c_dec>>
engine_vars == <<cf_names, db, snap, wb, it, ret, write_txn, sst>>
hist_vars == <<kv, at_snap>>
vars == <<c_cf, c_key, c_phase, c_pk, c_dec, cf_names, db, snap, wb, it, ret,
          write_txn, sst, kv, at_snap>>

NoDec == [ok |-> FALSE, cf |-> <<>>, key |-> <<>>]

Ret(op, cf, res, out, flag, txn) ==
    [op |-> op, cf |-> cf, res |-> res, out |-> out, flag |-> flag, txn |-> txn]

\* the engine as AgateEngine::new leaves it, opened with the list cfs
EngineNew(cfs) ==
    /\ cf_names = new_cf_names(cfs)
    /\ db = EmptyStore
    /\ snap = None
    /\ wb = EmptyBatch
    /\ it = None
    /\ ret = Ret("new", None, "ok", None, FALSE, FALSE)
    /\ write_txn = None
    /\ kv = EmptyStore
    /\ at_snap = EmptyStore

\* no sorted-table writer, no table open
NoSst == [w |-> None, table |-> <<>>, it |-> None]

EngineInit(cfs) ==
    /\ EngineNew(cfs)
    /\ sst = NoSst

CodecIdle ==
    /\ c_cf = CF_DEFAULT
    /\ c_key = <<>>
    /\ c_phase = "off"
    /\ c_pk = <<>>
    /\ c_dec = NoDec

(***************************************************************************)
(* The codec checks: a (cf, key) pair is encoded, then decoded.            *)
(***************************************************************************)
CodecInit ==
    /\ c_cf \in CodecCfs
    /\ c_key \in CodecKeys
    /\ c_phase = "in"
    /\ c_pk = <<>>
    /\ c_dec = NoDec
    /\ EngineInit(<<>>)

Encode ==
    /\ c_phase = "in"
    /\ c_pk' = add_cf_prefix(c_key, Some(c_cf))
    /\ c_phase' = "enc"
    /\ UNCHANGED <<c_cf, c_key, c_dec, engine_vars, hist_vars>>

Decode ==
    /\ c_phase = "enc"
    /\ c_dec' = get_cf_and_key(c_pk)
    /\ c_phase' = "dec"
    /\ UNCHANGED <<c_cf, c_key, c_pk, engine_vars, hist_vars>>

CodecNext == Encode \/ Decode

SpecCodec == CodecInit /\ [][CodecNext]_vars

(***************************************************************************)
(* The facade's handlers as steps of the engine.                           *)
(***************************************************************************)
Fits(d) == Cardinality(DOMAIN d) <= MaxEntries

\* a handler call that leaves the snapshot, the batch and the cursor alone,
\* on a store that is kept to n entries
CallWithin(n, op, cf, r) ==
    /\ Cardinality(DOMAIN r.db) <= n
    /\ db' = r.db
    /\ ret' = Ret(op, cf, r.res, r.out, FALSE, r.txn)
    /\ UNCHANGED <<cf_names, snap, wb, it>>

Call(op, cf, r) == CallWithin(MaxEntries, op, cf, r)

Put(key, value, f) == Call("put", None, put(db, key, value, f))
PutCf(cf, key, value, f) ==
    Call("put_cf", Some(cf), put_cf(db, cf_names, cf, key, value, f))
Delete(key, f) == Call("delete", None, delete(db, key, f))
DeleteCf(cf, key, f) == Call("delete_cf", Some(cf), delete_cf(db, cf_names, cf, key, f))
GetValue(key) == Call("get_value", None, get_value_opt(db, key))
GetValueCf(cf, key) ==
    Call("get_value_cf", Some(cf), get_value_cf_opt(db, cf_names, cf, key))
DeleteRange(begin_key, end_key, f) ==
    Call("delete_range", None, delete_range(db, begin_key, end_key, f))
DeleteRangeCf(cf, begin_key, end_key, f) ==
    Call("delete_range_cf", Some(cf),
         delete_range_cf(db, cf_names, cf, begin_key, end_key, f))

\* a cursor is created (from the engine or from the snapshot)
Created(op, cf, c) ==
    /\ it' = c.it
    /\ ret' = Ret(op, cf, c.res, None, FALSE, c.txn)
    /\ UNCHANGED <<cf_names, db, snap, wb>>

NewIterator(opts) == Created("iterator", None, iterator_opt(db, opts))
NewIteratorCf(cf, opts) ==
    Created("iterator_cf", Some(cf), iterator_cf_opt(db, cf_names, cf, opts))
SnapIterator(opts) ==
    /\ snap.some
    /\ Created("snap_iterator", None, snap_iterator_opt(snap.v, opts))
SnapIteratorCf(cf, opts) ==
    /\ snap.some
    /\ Created("snap_iterator_cf", Some(cf), snap_iterator_cf_opt(snap.v, cf, opts))

\* the cursor is moved
Move(op, m) ==
    /\ it' = Some(m.it)
    /\ ret' = Ret(op, m.it.cf_name, m.res, None, m.out, FALSE)
    /\ UNCHANGED <<cf_names, db, snap, wb>>

IterSeek(sk) == it.some /\ Move("seek", seek(it.v, sk))
IterSeekForPrev(sk) == it.some /\ Move("seek_for_prev", seek_for_prev(it.v, sk))
IterNext == it.some /\ Move("next", next(it.v))
IterPrev == it.some /\ Move("prev", prev(it.v))
IterDrop ==
    /\ it.some
    /\ it' = None
    /\ ret' = Ret("drop_iterator", None, "ok", None, FALSE, FALSE)
    /\ UNCHANGED <<cf_names, db, snap, wb>>

\* KvEngine::snapshot
Snapshot ==
    /\ snap' = Some(snapshot_new(db, cf_names))
    /\ ret' = Ret("snapshot", None, "ok", None, FALSE, TRUE)
    /\ UNCHANGED <<cf_names, db, wb, it>>

SnapDrop ==
    /\ snap.some
    /\ snap' = None
    /\ ret' = Ret("drop_snapshot", None, "ok", None, FALSE, FALSE)
    /\ UNCHANGED <<cf_names, db, wb, it>>

\* a read through the snapshot
SnapRead(op, cf, r) ==
    /\ snap.some
    /\ ret' = Ret(op, cf, r.res, r.out, FALSE, r.txn)
    /\ UNCHANGED <<cf_names, db, snap, wb, it>>

SnapGetValue(key) ==
    snap.some /\ SnapRead("snap_get_value", None, snap_get_value_opt(snap.v, key))
SnapGetValueCf(cf, key) ==
    snap.some /\ SnapRead("snap_get_value_cf", Some(cf),
                          snap_get_value_cf_opt(snap.v, cf, key))

\* mutant of Recorded: the batch writes itself to the store once it is past
\* the threshold
Recorded_flushing(op, cf, b) ==
    /\ wb' = b
    /\ db' = IF should_write_to_engine(b) THEN write_opt(db, b, NoFault).db ELSE db
    /\ ret' = Ret(op, cf, "ok", None, FALSE, FALSE)
    /\ UNCHANGED <<cf_names, snap, it>>

\* one of the batch's Mutable calls: the batch becomes b, Ok is returned
Recorded(op, cf, b) ==
    /\ wb' = b
    /\ ret' = Ret(op, cf, "ok", None, FALSE, FALSE)
    /\ UNCHANGED <<cf_names, db, snap, it>>

\* a record is appended to the batch
Appended(op, cf, b) ==
    /\ count(wb) < MaxOps
    /\ Recorded(op, cf, b)

WbPut(key, value) == Appended("wb_put", None, wb_put(wb, key, value))
WbPutCf(cf, key, value) == Appended("wb_put_cf", Some(cf), wb_put_cf(wb, cf, key, value))
WbDelete(key) == Appended("wb_delete", None, wb_delete(wb, key))
WbDeleteCf(cf, key) == Appended("wb_delete_cf", Some(cf), wb_delete_cf(wb, cf, key))
WbDeleteRange(begin_key, end_key) ==
    Appended("wb_delete_range", None, wb_delete_range(wb, begin_key, end_key))
WbDeleteRangeCf(cf, begin_key, end_key) ==
    Appended("wb_delete_range_cf", Some(cf),
             wb_delete_range_cf(wb, cf, begin_key, end_key))

\* mutant of WbWrite: a successful write empties the batch
WbWrite_clearing(f) ==
    LET r == write_opt(db, wb, f)
    IN  /\ Cardinality(DOMAIN r.db) <= MaxEntries
        /\ db' = r.db
        /\ wb' = IF r.res = "ok" THEN clear(wb) ELSE wb
        /\ ret' = Ret("wb_write", None, r.res, r.out, FALSE, r.txn)
        /\ UNCHANGED <<cf_names, snap, it>>

WbWrite(f) == Call("wb_write", None, write_opt(db, wb, f))

WbClear ==
    /\ wb' = clear(wb)
    /\ ret' = Ret("wb_clear", None, "ok", None, FALSE, FALSE)
    /\ UNCHANGED <<cf_names, db, snap, it>>

\* WriteBatch::should_write_to_engine is asked
WbShouldWrite ==
    /\ ret' = Ret("wb_should_write", None, "ok", None, should_write_to_engine(wb), FALSE)
    /\ UNCHANGED <<cf_names, db, snap, wb, it>>

WbSetSavePoint ==
    /\ wb' = set_save_point(wb)
    /\ ret' = Ret("wb_set_save_point", None, "ok", None, FALSE, FALSE)
    /\ UNCHANGED <<cf_names, db, snap, it>>

\* pop_save_point or rollback_to_save_point, with its outcome r
SavePointCall(op, r) ==
    /\ wb' = r.wb
    /\ ret' = Ret(op, None, r.res, None, FALSE, FALSE)
    /\ UNCHANGED <<cf_names, db, snap, it>>

WbPopSavePoint == SavePointCall("wb_pop_save_point", pop_save_point(wb))
WbRollback == SavePointCall("wb_rollback", rollback_to_save_point(wb))

\* WriteBatch::merge with another batch src, which the call consumes
WbMerge(src) == SavePointCall("wb_merge", merge(wb, src))

(***************************************************************************)
(* SpecPoint: one caller doing point puts, deletes and gets.  kv records   *)
(* what the caller wrote.                                                  *)
(***************************************************************************)
PointInit ==
    /\ CodecIdle
    /\ \E cfs \in CfLists : EngineInit(cfs)

Wrote(cf, key, value) ==
    kv' = IF ret'.res = "ok" THEN txn_set(kv, <<cf, key>>, value) ELSE kv

Erased(cf, key) ==
    kv' = IF ret'.res = "ok" THEN txn_delete(kv, <<cf, key>>) ELSE kv

PointNext ==
    /\ UNCHANGED <<codec_vars, at_snap, write_txn, sst>>
    /\ \/ \E key \in Keys, value \in Values, f \in Faults :
              Put(key, value, f) /\ Wrote(CF_DEFAULT, key, value)
       \/ \E cf \in CfArgs, key \in Keys, value \in Values, f \in Faults :
              PutCf(cf, key, value, f) /\ Wrote(cf, key, value)
       \/ \E key \in Keys, f \in Faults :
              Delete(key, f) /\ Erased(CF_DEFAULT, key)
       \/ \E cf \in CfArgs, key \in Keys, f \in Faults :
              DeleteCf(cf, key, f) /\ Erased(cf, key)
       \/ \E key \in Keys : GetValue(key) /\ UNCHANGED kv
       \/ \E cf \in CfArgs, key \in Keys : GetValueCf(cf, key) /\ UNCHANGED kv

SpecPoint == PointInit /\ [][PointNext]_vars

(***************************************************************************)
(* Spec: one caller using the engine: point operations, range deletes and  *)
(* a write batch.                                                          *)
(***************************************************************************)
Init ==
    /\ CodecIdle
    /\ \E cfs \in CfLists : EngineInit(cfs)

Writes(K, F) ==
    \/ \E key \in K, value \in Values, f \in F : Put(key, value, f)
    \/ \E cf \in CfArgs, key \in K, value \in Values, f \in F :
           PutCf(cf, key, value, f)
    \/ \E key \in K, f \in F : Delete(key, f)
    \/ \E cf \in CfArgs, key \in K, f \in F : DeleteCf(cf, key, f)
    \/ \E b \in K, e \in K, f \in F : DeleteRange(b, e, f)
    \/ \E cf \in CfArgs, b \in K, e \in K, f \in F :
           DeleteRangeCf(cf, b, e, f)

Reads(K) ==
    \/ \E key \in K : GetValue(key)
    \/ \E cf \in CfArgs, key \in K : GetValueCf(cf, key)

BatchSteps(K, F) ==
    \/ \E key \in K, value \in Values : WbPut(key, value)
    \/ \E cf \in CfArgs, key \in K, value \in Values : WbPutCf(cf, key, value)
    \/ \E key \in K : WbDelete(key)
    \/ \E cf \in CfArgs, key \in K : WbDeleteCf(cf, key)
    \/ \E b \in K, e \in K : WbDeleteRange(b, e)
    \/ \E cf \in CfArgs, b \in K, e \in K : WbDeleteRangeCf(cf, b, e)
    \/ \E f \in F : WbWrite(f)
    \/ WbClear

\* the caller holds nothing but the engine: its batch is empty and it has no
\* cursor
Idle == count(wb) = 0 /\ it = None

CursorSteps(K) ==
    \/ \E sk \in SeekKeys(K) : IterSeek(sk)
    \/ \E sk \in SeekKeys(K) : IterSeekForPrev(sk)
    \/ IterNext
    \/ IterPrev
    \/ IterDrop

Next ==
    /\ UNCHANGED <<codec_vars, hist_vars, write_txn, sst>>
    /\ \/ Idle /\ Writes(Keys, {NoFault})
       \/ Idle /\ Reads(Keys)
       \/ BatchSteps(Keys, {NoFault})

Spec == Init /\ [][Next]_vars

(***************************************************************************)
(* SpecScan: the engine's cursor over stores whose keys may hold the       *)
(* delimiter.  The store is built with puts; the cursor is bounded as      *)
(* Iterable::scan bounds it.                                               *)
(***************************************************************************)
ScanInit ==
    /\ CodecIdle
    /\ EngineInit(<<CF_TEST>>)

ScanNext ==
    /\ UNCHANGED <<codec_vars, hist_vars, write_txn, sst>>
    /\ \/ \E key \in ScanKeys : Idle /\ Put(key, 1, NoFault)
       \/ \E cf \in CfArgs, key \in ScanKeys : Idle /\ PutCf(cf, key, 1, NoFault)
       \/ \E lo \in Keys, up \in Keys :
              Idle /\ NewIterator(IterOptions(Some(lo), Some(up)))
       \/ \E cf \in CfArgs, lo \in Keys, up \in Keys :
              Idle /\ NewIteratorCf(cf, IterOptions(Some(lo), Some(up)))
       \/ \E k \in Keys : IterSeek(SeekTo(k))
       \/ IterNext
       \/ IterDrop

SpecScan == ScanInit /\ [][ScanNext]_vars

(***************************************************************************)
(* SpecSnap: the engine with one snapshot: every kind of write goes on     *)
(* after the snapshot was created, and reads go through the snapshot.      *)
(***************************************************************************)
SnapInit ==
    /\ CodecIdle
    /\ EngineInit(<<CF_TEST>>)

SnapNext ==
    /\ UNCHANGED <<codec_vars, kv, write_txn, sst>>
    /\ \/ Idle /\ Writes(SmallKeys, {NoFault}) /\ UNCHANGED at_snap
       \/ BatchSteps(SmallKeys, {NoFault}) /\ UNCHANGED at_snap
       \/ Idle /\ snap = None /\ Snapshot /\ at_snap' = db
       \/ Idle /\ SnapDrop /\ at_snap' = EmptyStore
       \/ \E key \in SmallKeys : Idle /\ SnapGetValue(key) /\ UNCHANGED at_snap
       \/ \E cf \in CfArgs, key \in SmallKeys :
              Idle /\ SnapGetValueCf(cf, key) /\ UNCHANGED at_snap

SpecSnap == SnapInit /\ [][SnapNext]_vars

(***************************************************************************)
(* SpecCf: every family-qualified entry point of the engine and of the     *)
(* snapshot, called with declared and with undeclared families.  The       *)
(* caller moves the cursor it got and drops its snapshot or cursor before  *)
(* it writes again.                                                        *)
(***************************************************************************)
CfInit ==
    /\ CodecIdle
    /\ \E cfs \in CfLists : EngineInit(cfs)

Free == Idle /\ snap = None

CfNext ==
    /\ UNCHANGED <<codec_vars, hist_vars, write_txn, sst>>
    /\ \/ \E cf \in CfArgs, key \in SmallKeys, value \in Values :
              Free /\ PutCf(cf, key, value, NoFault)
       \/ \E cf \in CfArgs, key \in SmallKeys : Free /\ DeleteCf(cf, key, NoFault)
       \/ \E cf \in CfArgs, b \in SmallKeys, e \in SmallKeys :
              Free /\ DeleteRangeCf(cf, b, e, NoFault)
       \/ \E cf \in CfArgs, key \in SmallKeys : Free /\ GetValueCf(cf, key)
       \/ \E cf \in CfArgs, lo \in Bounds(SmallKeys), up \in Bounds(SmallKeys) :
              Free /\ NewIteratorCf(cf, IterOptions(lo, up))
       \/ CursorSteps(SmallKeys)
       \/ Free /\ Snapshot
       \/ Idle /\ SnapDrop
       \/ \E cf \in CfArgs, key \in SmallKeys : Idle /\ SnapGetValueCf(cf, key)
       \/ \E cf \in CfArgs, lo \in Bounds(SmallKeys), up \in Bounds(SmallKeys) :
              Idle /\ SnapIteratorCf(cf, IterOptions(lo, up))

SpecCf == CfInit /\ [][CfNext]_vars

(***************************************************************************)
(* Claims about the codec (checked under SpecCodec).                       *)
(***************************************************************************)
IsPrefix(a, b) == Len(a) <= Len(b) /\ \A i \in 1..Len(a) : a[i] = b[i]

\* two different names, one of which followed by the delimiter is a prefix of
\* the other followed by the delimiter
PrefixConflict(a, b) ==
    /\ a # b
    /\ \/ IsPrefix(a \o DELIMITER, b \o DELIMITER)
       \/ IsPrefix(b \o DELIMITER, a \o DELIMITER)

\* C5 (as claimed): for every valid family name (an ASCII identifier) and
\* every logical key, decoding the encoded key returns exactly (cf, key).
C5_RoundTrip ==
    (c_phase = "dec" /\ IsIdentifier(c_cf)) =>
        c_dec = [ok |-> TRUE, cf |-> c_cf, key |-> c_key]

\* C6 (as claimed): over family names that do not contain the delimiter, no
\* other (cf, key) pair encodes to the physical key of this pair.
C6_InjectiveNoDelimiter ==
    c_phase = "enc" =>
        \A cf2 \in CodecCfs, k2 \in CodecKeys :
            add_cf_prefix(k2, Some(cf2)) = c_pk => (cf2 = c_cf /\ k2 = c_key)

\* C6 (amended): among family names none of which, followed by the delimiter,
\* is a prefix of another followed by the delimiter, no other (cf, key) pair
\* encodes to the physical key of this pair.
C6_InjectivePrefixFree ==
    c_phase = "enc" =>
        \A cf2 \in CodecCfs, k2 \in CodecKeys :
            (~PrefixConflict(cf2, c_cf) /\ add_cf_prefix(k2, Some(cf2)) = c_pk)
                => (cf2 = c_cf /\ k2 = c_key)

\* C6 witness: a pair is encoded while another family's name is a proper
\* prefix of this one's without conflicting with it.
C6_Witness ==
    /\ c_phase = "enc"
    /\ c_key = <<33, 64>>
    /\ \E cf2 \in CodecCfs :
           cf2 # c_cf /\ IsPrefix(cf2, c_cf) /\ ~PrefixConflict(cf2, c_cf)

\* C7: for a fixed family the encoding preserves and reflects the byte order
\* of logical keys.
C7_OrderPreserving ==
    c_phase = "enc" =>
        \A k2 \in CodecKeys :
            LexLess(c_key, k2) <=> LexLess(c_pk, add_cf_prefix(k2, Some(c_cf)))

\* C7 witness: an encoded key that sorts strictly between two other keys of
\* the same family.
C7_Witness ==
    /\ c_phase = "enc"
    /\ c_key = <<64, 33>>
    /\ LexLess(add_cf_prefix(<<64>>, Some(c_cf)), c_pk)
    /\ LexLess(c_pk, add_cf_prefix(<<64, 33, 64>>, Some(c_cf)))

(***************************************************************************)
(* Claims about point operations (checked under SpecPoint).                *)
(***************************************************************************)
\* what a get on (cf, key) reads from the store d
Read(d, cf, key) == get_value_cf_opt(d, cf_names, cf, key).out

\* the handler call leaves what is read for every pair but (cf, key) unchanged
Frame(r, cf, key) ==
    \A cf2 \in cf_names, k2 \in Keys :
        <<cf2, k2>> # <<cf, key>> => Read(r.db, cf2, k2) = Read(db, cf2, k2)

\* C1: in every reachable store, puts of v1 on (cf_a, x) and of v2 on (cf_b, x)
\* for distinct declared families leave v1 read on (cf_a, x) and v2 on
\* (cf_b, x); and any put or delete on (cf, k), with or without a family
\* argument, failed or not, leaves the value read for every other pair
\* unchanged.
C1_Isolation ==
    /\ \A cf_a \in cf_names, cf_b \in cf_names, x \in Keys, v1 \in Values, v2 \in Values :
           cf_a # cf_b =>
               LET d1 == put_cf(db, cf_names, cf_a, x, v1, NoFault).db
                   d2 == put_cf(d1, cf_names, cf_b, x, v2, NoFault).db
               IN  Read(d2, cf_a, x) = Some(v1) /\ Read(d2, cf_b, x) = Some(v2)
    /\ \A cf \in CfArgs, k \in Keys, f \in Faults :
           /\ \A v \in Values : Frame(put_cf(db, cf_names, cf, k, v, f), cf, k)
           /\ Frame(delete_cf(db, cf_names, cf, k, f), cf, k)
    /\ \A k \in Keys, f \in Faults :
           /\ \A v \in Values : Frame(put(db, k, v, f), CF_DEFAULT, k)
           /\ Frame(delete(db, k, f), CF_DEFAULT, k)

\* C1 witness: a put_cf succeeded and the same key now holds different values
\* in two declared families.
C1_Witness ==
    /\ ret.op = "put_cf" /\ ret.res = "ok"
    /\ CF_TEST \in cf_names
    /\ \E x \in Keys :
           /\ Read(db, CF_TEST, x) = Some(1)
           /\ Read(db, CF_DEFAULT, x) = Some(2)

\* C2: a get on a declared family succeeds and returns what the caller last
\* put successfully on (cf, k) and has not deleted since, None if there is no
\* such put (the key was never written or was deleted); for get_value_cf and
\* for get_value (family "default").
C2_ReadYourWrite ==
    /\ \A cf \in cf_names, k \in Keys :
           get_value_cf_opt(db, cf_names, cf, k)
               = Outcome(db, "ok", txn_get(kv, <<cf, k>>), TRUE)
    /\ \A k \in Keys :
           get_value_opt(db, k) = Outcome(db, "ok", txn_get(kv, <<CF_DEFAULT, k>>), TRUE)
    /\ (ret.op = "get_value_cf" /\ ret.cf.v \in cf_names) => ret.res = "ok"

\* C2 witness: a get_value_cf has returned a value put earlier, while another
\* key of the family reads None.
C2_Witness ==
    /\ ret.op = "get_value_cf" /\ ret.res = "ok"
    /\ ret.cf = Some(CF_TEST)
    /\ ret.out = Some(2)
    /\ \E k \in Keys : Read(db, CF_TEST, k) = None

(***************************************************************************)
(* Claims about family validation (checked under SpecCf).                  *)
(***************************************************************************)
\* the handler call returned an error, opened no transaction and left the
\* store d as it was
Rejected(r, d) == r.res # "ok" /\ ~r.txn /\ r.db = d

\* no cursor was created, with an error and without a transaction
NoCursor(c) == c.res # "ok" /\ ~c.txn /\ c.it = None

\* C3: in every reachable state, each family-qualified entry point of the
\* engine and of the snapshot, called with a family that is not declared,
\* returns an error without opening a transaction and leaves the store
\* unchanged; and the last call made, if it named an undeclared family,
\* returned an error without a transaction.
C3_UnknownFamilyRejected ==
    /\ \A cf \in CfArgs \ cf_names :
           /\ \A k \in Keys : Rejected(get_value_cf_opt(db, cf_names, cf, k), db)
           /\ \A k \in Keys, v \in Values, f \in Faults :
                  Rejected(put_cf(db, cf_names, cf, k, v, f), db)
           /\ \A k \in Keys, f \in Faults :
                  Rejected(delete_cf(db, cf_names, cf, k, f), db)
           /\ \A b \in Keys, e \in Keys, f \in Faults :
                  Rejected(delete_range_cf(db, cf_names, cf, b, e, f), db)
           /\ \A lo \in Bounds(Keys), up \in Bounds(Keys) :
                  NoCursor(iterator_cf_opt(db, cf_names, cf, IterOptions(lo, up)))
           /\ snap.some =>
                  /\ \A k \in Keys :
                         Rejected(snap_get_value_cf_opt(snap.v, cf, k), snap.v.txn)
                  /\ \A lo \in Bounds(Keys), up \in Bounds(Keys) :
                         NoCursor(snap_iterator_cf_opt(snap.v, cf, IterOptions(lo, up)))
    /\ (ret.cf.some /\ ret.cf.v \notin cf_names) =>
           (ret.res # "ok" /\ ~ret.txn /\ it = None)

\* C3 witness: a cursor of an undeclared family was asked from a snapshot of
\* a store that holds entries, and refused.
C3_Witness ==
    /\ ret.op = "snap_iterator_cf" /\ ret.res = "cf_err"
    /\ ret.cf = Some(CF_TEST) /\ CF_TEST \notin cf_names
    /\ snap.some /\ db # EmptyStore

(***************************************************************************)
(* Claims about the write batch and the default family (checked under      *)
(* Spec).                                                                  *)
(***************************************************************************)
\* the batch holds a record that names a family the engine does not declare
NamesUnknownFamily(b) ==
    \E i \in 1..count(b) :
        b.operations[i].cf.some /\ b.operations[i].cf.v \notin cf_names

\* C4 (as claimed): writing a batch with a record of an undeclared family
\* does not return success and leaves the store as it was.
C4_UnknownFamilyBatchFails ==
    NamesUnknownFamily(wb) =>
        /\ \A f \in Faults :
               LET r == write_opt(db, wb, f)
               IN  r.res # "ok" /\ r.db = db
        /\ ret.op = "wb_write" => ret.res # "ok"

\* two cursor moves agree: same result, same answer, same position
SameMove(x, y) == x.res = y.res /\ x.out = y.out /\ x.it.iter = y.it.iter

\* a cursor without a family and a cursor of family "default" on the same
\* view with the same bounds, at the same position pos, answer alike
SameCursor(view, opts, pos) ==
    LET a == [Cursor(view, opts, None) EXCEPT !.iter = pos]
        b == [Cursor(view, opts, Some(CF_DEFAULT)) EXCEPT !.iter = pos]
    IN  /\ valid(a) = valid(b)
        /\ valid(a) => (key_of(a) = key_of(b) /\ value_of(a) = value_of(b))
        /\ SameMove(next(a), next(b))
        /\ SameMove(prev(a), prev(b))
        /\ \A sk \in SeekKeys(Keys) :
               /\ SameMove(seek(a, sk), seek(b, sk))
               /\ SameMove(seek_for_prev(a, sk), seek_for_prev(b, sk))

\* a batch extended with a record without a family writes what the batch
\* extended with the same record of family "default" writes
SameWrite(b, f) ==
    /\ \A k \in Keys, v \in Values :
           write_opt(db, wb_put(b, k, v), f)
               = write_opt(db, wb_put_cf(b, CF_DEFAULT, k, v), f)
    /\ \A k \in Keys :
           write_opt(db, wb_delete(b, k), f)
               = write_opt(db, wb_delete_cf(b, CF_DEFAULT, k), f)
    /\ \A k \in Keys, e \in Keys :
           write_opt(db, wb_delete_range(b, k, e), f)
               = write_opt(db, wb_delete_range_cf(b, CF_DEFAULT, k, e), f)

\* the last call was a get without a family: the store takes each of its
\* reachable values in such a state, since a get is enabled whenever the
\* batch is empty and changes nothing
AtRead == ret.op = "get_value"

\* C8: "default" is always declared, and each handler without a family
\* argument returns what the family-qualified handler returns for "default"
\* and leaves the same store: put, delete and get_value_opt in every
\* reachable state; delete_range in every reachable store; a cursor from
\* iterator_opt answers every move from every position as a cursor from
\* iterator_cf_opt("default") does, in every reachable store; and a batch
\* extended with a put, delete or delete_range record writes what the batch
\* extended with the "default" record writes, for every store and batch.
C8_DefaultFamily ==
    /\ CF_DEFAULT \in cf_names
    /\ \A k \in Keys, f \in Faults :
           /\ \A v \in Values :
                  put(db, k, v, f) = put_cf(db, cf_names, CF_DEFAULT, k, v, f)
           /\ delete(db, k, f) = delete_cf(db, cf_names, CF_DEFAULT, k, f)
           /\ get_value_opt(db, k) = get_value_cf_opt(db, cf_names, CF_DEFAULT, k)
    /\ AtRead =>
           /\ \A b \in Keys, e \in Keys, f \in Faults :
                  delete_range(db, b, e, f)
                      = delete_range_cf(db, cf_names, CF_DEFAULT, b, e, f)
           /\ \A lo \in Bounds(Keys), up \in Bounds(Keys) :
                  LET opts == IterOptions(lo, up)
                      x == iterator_opt(db, opts)
                      y == iterator_cf_opt(db, cf_names, CF_DEFAULT, opts)
                  IN  /\ x.res = y.res /\ x.txn = y.txn /\ x.it.some = y.it.some
                      /\ \A pos \in {None} \cup {Some(pk) : pk \in DOMAIN db} :
                             SameCursor(db, opts, pos)
           /\ \A f \in Faults : SameWrite(wb, f)
    /\ (count(wb) > 0 /\ ret.op # "wb_write") => SameWrite(wb, NoFault)

\* C8 witness: the engine was opened without listing any family, a batch
\* holding a put without a family was written, and the value is read back
\* through family "default".
C8_Witness ==
    /\ cf_names = {CF_DEFAULT}
    /\ ret.op = "wb_write" /\ ret.res = "ok"
    /\ count(wb) = 1
    /\ wb.operations[1].type = "Put" /\ ~wb.operations[1].cf.some
    /\ get_value_cf_opt(db, cf_names, CF_DEFAULT, wb.operations[1].key).out
           = Some(wb.operations[1].value)

(***************************************************************************)
(* Claims about snapshots (checked under SpecSnap).                        *)
(***************************************************************************)
\* C9: while a snapshot exists, whatever was committed since its creation,
\* its point gets return what the engine's gets returned on the store
\* committed at its creation (at_snap), the cursors created from it are the
\* cursors the engine created on that store, and a forward scan through it
\* visits that store's entries; a put or delete committed now is read back
\* by the live engine and not by the snapshot.
C9_SnapshotIsolation ==
    snap.some =>
        /\ \A k \in Keys :
               LET r == snap_get_value_opt(snap.v, k)
                   e == get_value_opt(at_snap, k)
               IN  r.res = e.res /\ r.out = e.out
        /\ \A cf \in CfArgs, k \in Keys :
               LET r == snap_get_value_cf_opt(snap.v, cf, k)
                   e == get_value_cf_opt(at_snap, cf_names, cf, k)
               IN  r.res = e.res /\ r.out = e.out
        /\ \A lo \in Bounds(Keys), up \in Bounds(Keys) :
               LET opts == IterOptions(lo, up)
               IN  /\ snap_iterator_opt(snap.v, opts) = iterator_opt(at_snap, opts)
                   /\ \A cf \in CfArgs :
                          snap_iterator_cf_opt(snap.v, cf, opts)
                              = iterator_cf_opt(at_snap, cf_names, cf, opts)
        /\ \A cf \in CfArgs :
               scan_impl(snap_iterator_cf_opt(snap.v, cf, IterOptions(None, None)).it.v,
                         <<>>, Unlimited)
                   = scan_impl(iterator_cf_opt(at_snap, cf_names, cf,
                                               IterOptions(None, None)).it.v,
                               <<>>, Unlimited)
        /\ \A cf \in CfArgs, k \in SmallKeys, v \in Values :
               LET p == put_cf(db, cf_names, cf, k, v, NoFault)
                   d == delete_cf(db, cf_names, cf, k, NoFault)
               IN  /\ get_value_cf_opt(p.db, cf_names, cf, k).out = Some(v)
                   /\ get_value_cf_opt(d.db, cf_names, cf, k).out = None
                   /\ snap_get_value_cf_opt(snap.v, cf, k).out
                          = get_value_cf_opt(at_snap, cf_names, cf, k).out

\* C9 witness: a get through the snapshot returned the value committed at its
\* creation for a key that the live engine now reads differently, and
\* another key of the snapshot is gone from the live store.
C9_Witness ==
    /\ snap.some
    /\ ret.op = "snap_get_value_cf" /\ ret.res = "ok" /\ ret.out = Some(1)
    /\ \E k \in SmallKeys :
           /\ snap_get_value_cf_opt(snap.v, ret.cf.v, k).out = Some(1)
           /\ get_value_cf_opt(db, cf_names, ret.cf.v, k).out = Some(2)
    /\ \E pk \in DOMAIN at_snap : pk \notin DOMAIN db

(***************************************************************************)
(* Claims about scans (checked under SpecScan).                            *)
(***************************************************************************)
\* the logical keys of family cf that the store d holds
LiveKeys(d, cf) == {k \in ScanKeys : add_cf_prefix(k, Some(cf)) \in DOMAIN d}

\* k lies in [start, end), an empty end being no bound
InRange(k, start, end) ==
    LexLeq(start, k) /\ (end = <<>> \/ LexLess(k, end))

\* the keys of S in ascending byte order, each with its value in d
RECURSIVE Ascending(_, _, _)
Ascending(S, d, cf) ==
    IF S = {} THEN <<>>
    ELSE LET m == CHOOSE k \in S : \A q \in S : LexLeq(k, q)
         IN  <<[key |-> m, value |-> d[add_cf_prefix(m, Some(cf))]]>>
                 \o Ascending(S \ {m}, d, cf)

\* C10 (as claimed): in every reachable store, a cursor of a declared family
\* cf with bounds [start, end), positioned with seek(Key(start)) and advanced
\* with next until it reports false, visits exactly the live keys of cf in
\* [start, end), in ascending order with their values; and whenever the
\* cursor in use reports true it stands on a live key of its family.
C10_ForwardScanExact ==
    /\ Idle =>
           \A cf \in cf_names, start \in Keys, end \in Keys :
               LET c == iterator_cf_opt(db, cf_names, cf,
                                        IterOptions(Some(start), Some(end))).it.v
               IN  scan_impl(c, start, Unlimited)
                       = Ascending({k \in LiveKeys(db, cf) : InRange(k, start, end)},
                                   db, cf)
    /\ (it.some /\ ret.op \in {"seek", "next"} /\ ret.flag /\ it.v.cf_name.some) =>
           key_of(it.v) \in LiveKeys(it.v.view, it.v.cf_name.v)

(***************************************************************************)
(* Claims about the facade's range deletes.                                *)
(***************************************************************************)
\* what every declared family reads in store d2 is what it read in store d,
\* but for the keys of family cf in [begin_key, end_key), which are absent
RangeGone(d, d2, cf, begin_key, end_key) ==
    \A c2 \in cf_names, k \in ScanKeys :
        Read(d2, c2, k) = IF c2 = cf /\ InRange(k, begin_key, end_key)
                          THEN None
                          ELSE Read(d, c2, k)

\* C11 (as claimed; checked under SpecScan): in every reachable store, a
\* successful delete_range_cf(cf, begin, end) with begin <= end (end not
\* empty) leaves every key of cf in [begin, end) absent and every other key
\* of every family with its value; likewise delete_range for "default".
C11_DeleteRangeExact ==
    Idle =>
        \A b \in ScanKeys, e \in ScanKeys :
            (LexLeq(b, e) /\ e # <<>>) =>
                /\ \A cf \in cf_names :
                       LET r == delete_range_cf(db, cf_names, cf, b, e, NoFault)
                       IN  r.res = "ok" => RangeGone(db, r.db, cf, b, e)
                /\ LET r == delete_range(db, b, e, NoFault)
                   IN  r.res = "ok" => RangeGone(db, r.db, CF_DEFAULT, b, e)

\* C12 (checked under Spec): in every reachable store, delete_range and
\* delete_range_cf called with end_key < begin_key, for a declared or an
\* undeclared family, return an error without opening a transaction and
\* leave the store as it was.
C12_InvalidRangeRejected ==
    \A b \in Keys, e \in Keys, f \in Faults :
        LexLess(e, b) =>
            /\ Rejected(delete_range(db, b, e, f), db)
            /\ \A cf \in CfArgs :
                   Rejected(delete_range_cf(db, cf_names, cf, b, e, f), db)

\* C12 witness: a delete_range on a store that holds entries was refused
\* (no engine fault is injected under Spec, so it was refused for its range).
C12_Witness ==
    /\ ret.op = "delete_range" /\ ret.res = "engine_err" /\ ~ret.txn
    /\ db # EmptyStore

(***************************************************************************)
(* SpecSave: one caller filling a batch through each of the six Mutable    *)
(* calls, setting, popping and rolling back to save points, writing and    *)
(* clearing the batch.                                                     *)
(***************************************************************************)
\* the records the caller appends: one per Mutable call
SaveRecords ==
    {OpPut(<<>>, 1, None), OpPut(<<64>>, 2, Some(CF_TEST)),
     OpDelete(<<>>, None), OpDelete(<<64>>, Some(CF_TEST)),
     OpDeleteRange(<<>>, <<64>>, None), OpDeleteRange(<<>>, <<64, 64>>, Some(CF_TEST))}

SaveAppends ==
    \/ Recorded("wb_put", None, wb_put(wb, <<>>, 1))
    \/ Recorded("wb_put_cf", Some(CF_TEST), wb_put_cf(wb, CF_TEST, <<64>>, 2))
    \/ Recorded("wb_delete", None, wb_delete(wb, <<>>))
    \/ Recorded("wb_delete_cf", Some(CF_TEST), wb_delete_cf(wb, CF_TEST, <<64>>))
    \/ Recorded("wb_delete_range", None, wb_delete_range(wb, <<>>, <<64>>))
    \/ Recorded("wb_delete_range_cf", Some(CF_TEST),
                wb_delete_range_cf(wb, CF_TEST, <<>>, <<64, 64>>))

\* the other batches a caller merges in: up to MaxMerged records, with no
\* save point or with one set before its first record or after it
MergeSources ==
    {[operations |-> rs, save_points |-> sp] :
        rs \in SeqsUpTo(SaveRecords, MaxMerged), sp \in {<<>>, <<0>>, <<1>>}}
    \ {[operations |-> <<>>, save_points |-> <<1>>]}

SaveInit ==
    /\ CodecIdle
    /\ EngineInit(<<CF_TEST>>)

SaveNext ==
    /\ UNCHANGED <<codec_vars, hist_vars, write_txn, sst>>
    /\ \/ count(wb) < MaxSaveOps /\ SaveAppends
       \/ Len(wb.save_points) < MaxSavePoints /\ WbSetSavePoint
       \/ WbPopSavePoint
       \/ WbRollback
       \/ \E src \in MergeSources :
              count(wb) + count(src) <= MaxSaveOps /\ WbMerge(src)
       \/ WbWrite(NoFault)
       \/ WbClear

SpecSave == SaveInit /\ [][SaveNext]_vars

(***************************************************************************)
(* Claims about save points (checked under SpecSave).                      *)
(***************************************************************************)
\* the batch b after the records of rs are appended, each as the Mutable
\* calls append it
RECURSIVE PushAll(_, _)
PushAll(b, rs) ==
    IF rs = <<>> THEN b
    ELSE PushAll([b EXCEPT !.operations = Append(@, Head(rs))], Tail(rs))

\* the runs of up to MaxRolled records
Runs == SeqsUpTo(SaveRecords, MaxRolled)

\* C13: from every reachable batch (looked at after each write() of it,
\* which leaves it as it is), set_save_point(), any run of appended
\* records and rollback_to_save_point() succeed and give back the batch as
\* it was (same records, same count, same outstanding markers), and a
\* write() of it writes what a write() of the batch as it was writes; with
\* a second save point set after the run, a first rollback gives back the
\* batch as it was at the second save point and a second rollback the batch
\* as it was at the first.
C13_RollbackRestores ==
    ret.op = "wb_write" => \A rs \in Runs :
        LET marked == PushAll(set_save_point(wb), rs)
            back == rollback_to_save_point(marked)
        IN  /\ back.res = "ok"
            /\ back.wb = wb
            /\ count(back.wb) = count(wb)
            /\ write_opt(db, back.wb, NoFault) = write_opt(db, wb, NoFault)
            /\ \A rs2 \in Runs :
                   LET inner == rollback_to_save_point(
                                    PushAll(set_save_point(marked), rs2))
                   IN  /\ inner.res = "ok"
                       /\ inner.wb = marked
                       /\ rollback_to_save_point(inner.wb).wb = wb

\* C13 witness: a rollback succeeded on a batch with two save points: the
\* records are cut back to the inner marker and the outer one is left.
C13_Witness ==
    /\ ret.op = "wb_rollback" /\ ret.res = "ok"
    /\ wb.save_points = <<1>>
    /\ count(wb) = 2

\* C14: on every reachable batch, pop_save_point() with markers outstanding
\* succeeds, removes the last marker only and leaves the records; with no
\* marker outstanding pop_save_point() and rollback_to_save_point() return
\* an error and leave the batch (records and markers) as it was; and a
\* save-point call that has just failed left no marker behind.
C14_PopAndEmptyStack ==
    /\ IF wb.save_points = <<>>
       THEN /\ pop_save_point(wb) = Saved(wb, "engine_err")
            /\ rollback_to_save_point(wb) = Saved(wb, "engine_err")
       ELSE LET p == pop_save_point(wb)
            IN  /\ p.res = "ok"
                /\ p.wb.operations = wb.operations
                /\ p.wb.save_points
                       = SubSeq(wb.save_points, 1, Len(wb.save_points) - 1)
    /\ (ret.op \in {"wb_pop_save_point", "wb_rollback"} /\ ret.res # "ok")
           => wb.save_points = <<>>

\* C14 witness: a pop_save_point on a batch that holds records and no marker
\* was refused.
C14_Witness ==
    /\ ret.op = "wb_pop_save_point" /\ ret.res = "engine_err"
    /\ count(wb) > 0 /\ wb.save_points = <<>>

(***************************************************************************)
(* SpecFill: one caller filling a batch past WRITE_BATCH_MAX_KEYS, asking  *)
(* should_write_to_engine, reading the store, writing and clearing the     *)
(* batch.  The first record and the records past the threshold are of any  *)
(* of the six kinds, the records between are puts of one key.              *)
(***************************************************************************)
FillInit ==
    /\ CodecIdle
    /\ EngineInit(<<CF_TEST>>)

FillNext ==
    /\ UNCHANGED <<codec_vars, hist_vars, write_txn, sst>>
    /\ \/ count(wb) < MaxFill /\ Recorded("wb_put", None, wb_put(wb, <<>>, 1))
       \/ /\ count(wb) < MaxFill
          /\ count(wb) = 0 \/ count(wb) >= WRITE_BATCH_MAX_KEYS
          /\ SaveAppends
       \/ WbShouldWrite
       \/ WbClear
       \/ WbWrite(NoFault)
       \/ \E key \in SmallKeys : GetValue(key)

SpecFill == FillInit /\ [][FillNext]_vars

(***************************************************************************)
(* Claims about the threshold and the appends (checked under SpecFill).    *)
(***************************************************************************)
\* C15: in every reachable state should_write_to_engine() is true exactly
\* when the batch holds more than 128 records (false with 128, true with
\* 129), the answer a caller was given is that one, and it is false for the
\* batch that clear() leaves.
C15_Threshold ==
    /\ should_write_to_engine(wb) <=> Len(wb.operations) > 128
    /\ Len(wb.operations) = 128 => ~should_write_to_engine(wb)
    /\ Len(wb.operations) = 129 => should_write_to_engine(wb)
    /\ ret.op = "wb_should_write" => (ret.flag <=> count(wb) > 128)
    /\ ~should_write_to_engine(clear(wb))
    /\ ret.op = "wb_clear" => (count(wb) = 0 /\ ~should_write_to_engine(wb))

\* C15 witness: should_write_to_engine answered true for 129 records.
C15_Witness ==
    /\ ret.op = "wb_should_write" /\ ret.flag
    /\ count(wb) = 129

\* the six Mutable calls
AppendOps ==
    {"wb_put", "wb_put_cf", "wb_delete", "wb_delete_cf",
     "wb_delete_range", "wb_delete_range_cf"}

\* C16: every step that is one of the six appends returns Ok, adds exactly
\* one record after the records the batch held, and leaves the store, the
\* snapshot and the cursor as they were, so that every get and every new
\* snapshot sees what it saw before, whatever the count.
C16_AppendFrame ==
    [][ret'.op \in AppendOps =>
          /\ ret'.res = "ok"
          /\ count(wb') = count(wb) + 1
          /\ SubSeq(wb'.operations, 1, count(wb)) = wb.operations
          /\ wb'.save_points = wb.save_points
          /\ db' = db /\ snap' = snap /\ it' = it
          /\ \A key \in SmallKeys :
                 get_value_opt(db', key) = get_value_opt(db, key)
          /\ \A cf \in CfArgs, key \in SmallKeys :
                 get_value_cf_opt(db', cf_names, cf, key)
                     = get_value_cf_opt(db, cf_names, cf, key)
          /\ snapshot_new(db', cf_names') = snapshot_new(db, cf_names)]_vars

\* C16 witness: the 129th record was appended and the key it puts is not
\* in the store.
C16_Witness ==
    /\ ret.op = "wb_put" /\ ret.res = "ok"
    /\ count(wb) = 129
    /\ get_value_opt(db, <<>>).out = None

(***************************************************************************)
(* SpecReplay: one caller appending up to MaxReplayOps records of a small  *)
(* alphabet (puts and deletes of two keys, range deletes that are full,    *)
(* partial, empty and inverted, records of a second family), writing the   *)
(* batch with and without engine faults, and clearing it.                  *)
(***************************************************************************)
ReplayPuts == {<<(<<>>), 1>>, <<(<<64>>), 1>>, <<(<<64>>), 2>>}
ReplayRanges ==
    {<<(<<>>), <<64, 64>>>>, <<(<<64>>), <<64, 64>>>>, <<(<<>>), <<>>>>, <<(<<64>>), <<>>>>}

ReplayAppends ==
    \/ \E p \in ReplayPuts : Recorded("wb_put", None, wb_put(wb, p[1], p[2]))
    \/ \E key \in SmallKeys : Recorded("wb_delete", None, wb_delete(wb, key))
    \/ \E r \in ReplayRanges :
           Recorded("wb_delete_range", None, wb_delete_range(wb, r[1], r[2]))
    \/ Recorded("wb_put_cf", Some(CF_TEST), wb_put_cf(wb, CF_TEST, <<64>>, 1))
    \/ Recorded("wb_delete_range_cf", Some(CF_TEST),
                wb_delete_range_cf(wb, CF_TEST, <<>>, <<64, 64>>))

ReplayInit ==
    /\ CodecIdle
    /\ EngineInit(<<CF_TEST>>)

ReplayNext ==
    /\ UNCHANGED <<codec_vars, hist_vars, write_txn, sst>>
    /\ \/ count(wb) < MaxReplayOps /\ ReplayAppends
       \/ \E f \in Faults : WbWrite(f)
       \/ WbClear

SpecReplay == ReplayInit /\ [][ReplayNext]_vars

(***************************************************************************)
(* Claims about write() (checked under SpecReplay).                        *)
(***************************************************************************)
\* the physical keys of d that lie in family cf with a logical key in
\* [begin_key, end_key)
RangeOf(d, begin_key, end_key, cf) ==
    LET prefix == add_cf_prefix(<<>>, cf)
    IN  {pk \in DOMAIN d :
            /\ IsPrefix(prefix, pk)
            /\ LET key == SubSeq(pk, Len(prefix) + 1, Len(pk))
               IN  LexLeq(begin_key, key) /\ LexLess(key, end_key)}

\* what one record does to a store
ApplyRecord(d, op) ==
    IF op.type = "Put" THEN txn_set(d, add_cf_prefix(op.key, op.cf), op.value)
    ELSE IF op.type = "Delete" THEN txn_delete(d, add_cf_prefix(op.key, op.cf))
    ELSE [pk \in DOMAIN d \ RangeOf(d, op.key, op.end_key, op.cf) |-> d[pk]]

\* the records of ops applied one by one, first to last
RECURSIVE ApplyAll(_, _)
ApplyAll(d, ops) ==
    IF ops = <<>> THEN d ELSE ApplyAll(ApplyRecord(d, Head(ops)), Tail(ops))

\* C17: on every reachable store and batch, a write() that succeeds leaves
\* the store that results from applying the batch's records one by one in
\* append order to the store before, and the batch as it was.
C17_ReplayInAppendOrder ==
    LET r == write_opt(db, wb, NoFault)
    IN  r.res = "ok" => r.db = ApplyAll(db, wb.operations)

\* C17 witness: a batch that puts a key, deletes the range holding it and
\* puts the key again with another value was written: the key holds the
\* later value.
C17_Witness ==
    /\ ret.op = "wb_write" /\ ret.res = "ok"
    /\ wb.operations = <<OpPut(<<64>>, 1, None),
                          OpDeleteRange(<<>>, <<64, 64>>, None),
                          OpPut(<<64>>, 2, None)>>
    /\ get_value_opt(db, <<64>>).out = Some(2)

\* a DeleteRange record with end < begin
InvalidRange(op) == op.type = "DeleteRange" /\ LexLess(op.end_key, op.key)
HasInvalidRange(b) == \E i \in 1..count(b) : InvalidRange(b.operations[i])

\* C19: on every reachable store and batch and under every engine fault, a
\* write() that fails leaves the store as it was, a batch that holds a
\* DeleteRange with end < begin fails, and a write() that has just failed
\* left the store without any key that only the batch puts.
C19_FailedWriteLeavesStore ==
    /\ [](\A f \in Faults :
             LET r == write_opt(db, wb, f)
             IN  /\ r.res # "ok" => r.db = db
                 /\ HasInvalidRange(wb) => r.res # "ok"
                 /\ f.commit => r.res # "ok")
    /\ [][(ret'.op = "wb_write" /\ ret'.res # "ok") => (db' = db /\ wb' = wb)]_vars

\* C19 witness: a write() failed on a batch whose first record puts a key
\* that the store does not hold and whose last record is an inverted range.
C19_Witness ==
    /\ ret.op = "wb_write" /\ ret.res = "engine_err"
    /\ count(wb) = 2
    /\ wb.operations[1] = OpPut(<<>>, 1, None)
    /\ InvalidRange(wb.operations[2])
    /\ get_value_opt(db, <<>>).out = None

\* C20: a write() of a batch that holds a DeleteRange with end < begin opens
\* no transaction and issues no set or delete.
C20_InvalidRangeFailsFirst ==
    HasInvalidRange(wb) =>
        /\ ~write_opt(db, wb, NoFault).txn
        /\ replay(wb.operations, db, 0, NoFault).calls = 0

(***************************************************************************)
(* SpecAtomic: write_opt taken step by step (the transaction is opened,    *)
(* one record is replayed into it at a time, it commits or is dropped),    *)
(* with gets, snapshots and cursors of other threads between the steps.    *)
(* The batch's mutex is held for the whole of write_opt, so the batch is   *)
(* not appended to or cleared while a write is under way.                  *)
(***************************************************************************)
\* write_opt, line 65: the transaction is opened on the committed store,
\* which is what it reads (base) and the start of its own view (pending)
WriteBegin(f) ==
    /\ write_txn = None
    /\ write_txn' = Some([base |-> db, pending |-> db, pos |-> 1, calls |-> 0, f |-> f])
    /\ UNCHANGED <<cf_names, db, snap, wb, it, ret>>

\* the transaction is dropped and write_opt returns the error
WriteFailed ==
    /\ write_txn' = None
    /\ ret' = Ret("wb_write", None, "engine_err", None, FALSE, TRUE)
    /\ UNCHANGED <<cf_names, db, snap, wb, it>>

\* mutant of WriteStep: each record is written to the store as it is replayed
WriteStep_through ==
    /\ write_txn.some
    /\ write_txn.v.pos <= count(wb)
    /\ LET t == write_txn.v
           r == replay_op(wb.operations[t.pos], t.pending, t.calls, t.f)
       IN  IF r.res # "ok" THEN WriteFailed
           ELSE /\ write_txn' = Some([t EXCEPT !.pending = r.pending,
                                               !.pos = @ + 1, !.calls = r.calls])
                /\ db' = r.pending
                /\ UNCHANGED <<cf_names, snap, wb, it, ret>>

\* write_opt, lines 72-129: one turn of the for loop
WriteStep ==
    /\ write_txn.some
    /\ write_txn.v.pos <= count(wb)
    /\ LET t == write_txn.v
           r == replay_op(wb.operations[t.pos], t.pending, t.calls, t.f)
       IN  IF r.res # "ok" THEN WriteFailed
           ELSE /\ write_txn' = Some([t EXCEPT !.pending = r.pending,
                                               !.pos = @ + 1, !.calls = r.calls])
                /\ UNCHANGED <<cf_names, db, snap, wb, it, ret>>

\* write_opt, lines 132-133: txn.commit()
WriteCommit ==
    /\ write_txn.some
    /\ write_txn.v.pos > count(wb)
    /\ IF write_txn.v.f.commit THEN WriteFailed
       ELSE /\ db' = write_txn.v.pending
            /\ write_txn' = None
            /\ ret' = Ret("wb_write", None, "ok", None, FALSE, TRUE)
            /\ UNCHANGED <<cf_names, snap, wb, it>>

AtomicAppends ==
    \/ \E p \in ReplayPuts : Recorded("wb_put", None, wb_put(wb, p[1], p[2]))
    \/ Recorded("wb_delete", None, wb_delete(wb, <<>>))
    \/ \E e \in {<<>>, <<64, 64>>} :
           Recorded("wb_delete_range", None, wb_delete_range(wb, <<64>>, e))

\* what other threads do while the writer is between two steps
AtomicReaders ==
    \/ \E key \in SmallKeys : GetValue(key)
    \/ it = None /\ Snapshot
    \/ \E key \in SmallKeys : SnapGetValue(key)
    \/ SnapDrop
    \/ snap = None /\ it = None /\ NewIterator(IterOptions(None, None))
    \/ IterSeek(SeekStart)
    \/ IterNext
    \/ IterDrop

AtomicInit ==
    /\ CodecIdle
    /\ EngineInit(<<>>)

AtomicNext ==
    /\ UNCHANGED <<codec_vars, hist_vars, sst>>
    /\ \/ /\ write_txn = None
          /\ count(wb) < MaxAtomicOps /\ AtomicAppends
          /\ UNCHANGED write_txn
       \/ write_txn = None /\ WbClear /\ UNCHANGED write_txn
       \/ \E f \in Faults : WriteBegin(f)
       \/ WriteStep
       \/ WriteCommit
       \/ AtomicReaders /\ UNCHANGED write_txn

SpecAtomic == AtomicInit /\ [][AtomicNext]_vars

(***************************************************************************)
(* Claim about the atomicity of write() (checked under SpecAtomic).        *)
(***************************************************************************)
\* C18: while a write() is under way the store that gets, new snapshots and
\* new cursors read is the store as it was when the write began, whatever
\* part of the batch has been replayed; the store changes only when a
\* write() commits, and then to the store with every record of the batch
\* applied; a snapshot or a cursor that is taken holds the committed store
\* of that moment.
C18_BatchAtomic ==
    /\ [](write_txn.some =>
             /\ db = write_txn.v.base
             /\ \A key \in SmallKeys :
                    get_value_opt(db, key).out
                        = txn_get(write_txn.v.base, add_cf_prefix(key, None)))
    /\ [][/\ db' # db =>
                /\ write_txn.some /\ ~write_txn'.some
                /\ ret'.op = "wb_write" /\ ret'.res = "ok"
                /\ db' = write_opt(db, wb, NoFault).db
                /\ db' = ApplyAll(db, wb.operations)
          /\ (snap' # snap /\ snap'.some) => snap'.v.txn = db
          /\ (~it.some /\ it'.some) => it'.v.view = db
          /\ (it.some /\ it'.some) => it'.v.view = it.v.view]_vars

\* C18 witness: the first of two records is replayed, the transaction's own
\* view holds the key it puts, and a snapshot taken from the store does not.
C18_Witness ==
    /\ write_txn.some
    /\ count(wb) = 2
    /\ write_txn.v.pos = 2
    /\ wb.operations[1] = OpPut(<<>>, 1, None)
    /\ txn_get(write_txn.v.pending, add_cf_prefix(<<>>, None)) = Some(1)
    /\ snap.some
    /\ snap_get_value_opt(snap.v, <<>>).out = None
    /\ ret.op = "snap_get_value" /\ ret.out = None

(***************************************************************************)
(* Claim about merge (checked under SpecSave).                             *)
(***************************************************************************)
\* C21: from every reachable batch and for every other batch, merge returns
\* Ok and leaves the batch with its earlier records first and in their
\* order, the other batch's records after them and in their order, a count
\* that is the sum of the two, and its save points as they were; the other
\* batch, which the call holds until it returns, is not changed by it; and
\* a merge that has just returned left every save point within the batch.
C21_MergeAppends ==
    /\ \A src \in MergeSources :
           LET m == merge(wb, src)
           IN  /\ m.res = "ok"
               /\ count(m.wb) = count(wb) + count(src)
               /\ SubSeq(m.wb.operations, 1, count(wb)) = wb.operations
               /\ SubSeq(m.wb.operations, count(wb) + 1, count(m.wb)) = src.operations
               /\ m.wb.save_points = wb.save_points
               /\ m.src = src
    /\ ret.op = "wb_merge" =>
           /\ ret.res = "ok"
           /\ \A i \in 1..Len(wb.save_points) : wb.save_points[i] <= count(wb)

\* C21 witness: a merge returned on a batch that holds a save point set
\* after its first record and two records after it, the last a delete_cf.
C21_Witness ==
    /\ ret.op = "wb_merge" /\ ret.res = "ok"
    /\ wb.save_points = <<1>>
    /\ count(wb) = 3
    /\ wb.operations[1] = OpPut(<<>>, 1, None)
    /\ wb.operations[3] = OpDelete(<<64>>, Some(CF_TEST))

(***************************************************************************)
(* SpecCursor: puts into two families, then one cursor of either family    *)
(* with any bounds, moved with every seek, seek_for_prev, next and prev.   *)
(***************************************************************************)
\* "", "@", "@@"
CurKeys == SeqsUpTo({64}, MaxCurKeyLen)

CursorInit ==
    /\ CodecIdle
    /\ EngineInit(<<CF_TEST>>)

\* Iterable::scan_cf of the engine with a callback that stops at its
\* budget-th call (never, for Unlimited): the call answers Ok; the number of
\* entries the callback was handed is kept with it
ScanCf(cf, start_key, end_key, budget) ==
    LET c == iterator_cf_opt(db, cf_names, cf,
                             IterOptions(Some(start_key), Some(end_key)))
    IN  /\ c.res = "ok"
        /\ LET t == scan_trace(c.it.v, start_key, budget)
           IN  ret' = Ret("scan_cf", Some(cf), "ok", Some(Len(t.visited)),
                          budget.some, TRUE)
        /\ UNCHANGED <<cf_names, db, snap, wb, it>>

CursorNext ==
    /\ UNCHANGED <<codec_vars, hist_vars, write_txn, sst>>
    /\ \/ \E cf \in CfArgs, key \in CurKeys :
              /\ Idle
              /\ CallWithin(MaxCurEntries, "put_cf", Some(cf),
                            put_cf(db, cf_names, cf, key, 1, NoFault))
       \/ \E lo \in Bounds(CurKeys), up \in Bounds(CurKeys) :
              Idle /\ NewIterator(IterOptions(lo, up))
       \/ \E cf \in CfArgs, lo \in Bounds(CurKeys), up \in Bounds(CurKeys) :
              Idle /\ NewIteratorCf(cf, IterOptions(lo, up))
       \/ CursorSteps(CurKeys)
       \/ \E cf \in CfArgs, b \in CurKeys, e \in CurKeys, budget \in {Unlimited, Some(1)} :
              Idle /\ ScanCf(cf, b, e, budget)

SpecCursor == CursorInit /\ [][CursorNext]_vars

(***************************************************************************)
(* Claims about the cursor (checked under SpecCursor).                     *)
(***************************************************************************)
\* the family a cursor iterates
FamilyOf(c) == IF c.cf_name.some THEN c.cf_name.v ELSE CF_DEFAULT

\* k lies within the bounds opts, an absent or empty bound being no bound
WithinBounds(k, opts) ==
    /\ (opts.lower.some /\ opts.lower.v # <<>>) => LexLeq(opts.lower.v, k)
    /\ (opts.upper.some /\ opts.upper.v # <<>>) => LexLess(k, opts.upper.v)

\* the calls that move a cursor
MoveOps == {"seek", "seek_for_prev", "next", "prev"}

\* C22: in every state valid() of the cursor is true exactly when the
\* native cursor is positioned, the family decoded from its physical key is
\* the cursor's family and the decoded key lies within the bounds; and the
\* answer of the last move is valid() of the cursor it left.
C22_ValidIff ==
    it.some =>
        /\ valid(it.v) <=>
               /\ it.v.iter.some
               /\ get_cf_and_key(it.v.iter.v).cf = FamilyOf(it.v)
               /\ WithinBounds(get_cf_and_key(it.v.iter.v).key, it.v.opts)
        /\ (ret.op \in MoveOps /\ ret.res = "ok") => (ret.flag <=> valid(it.v))

\* C22 witness: a seek left the native cursor on a key of the cursor's
\* family that is the upper bound, and answered false.
C22_Witness ==
    /\ it.some /\ it.v.iter.some
    /\ ret.op = "seek" /\ ~ret.flag
    /\ it.v.opts.upper = Some(<<64>>)
    /\ it.v.iter.v = add_cf_prefix(<<64>>, it.v.cf_name)

\* C23: next() and prev() on a cursor whose valid() is false return an
\* error.
C23_ExhaustedMoveFails ==
    (it.some /\ ~valid(it.v)) =>
        /\ next(it.v).res # "ok"
        /\ prev(it.v).res # "ok"

(***************************************************************************)
(* SpecSstWrite: one caller building sorted tables: a writer is built for  *)
(* the default family or for "cf", fed puts and deletes in any order, and  *)
(* finished.                                                               *)
(***************************************************************************)
\* a sorted-table call: the sorted-table side becomes s2
SstStep(op, cf, s2, res, flag) ==
    /\ sst' = s2
    /\ ret' = Ret(op, cf, res, None, flag, FALSE)
    /\ UNCHANGED <<cf_names, db, snap, wb, it>>

SstBuild(cf_name) ==
    /\ ~sst.w.some
    /\ SstStep("sst_build", cf_name, [sst EXCEPT !.w = Some(sst_build(cf_name))],
               "ok", FALSE)

SstWrite(op, r) ==
    SstStep(op, sst.w.v.cf_name, [sst EXCEPT !.w = Some(r.w)], r.res, FALSE)

SstPut(key, val) == sst.w.some /\ SstWrite("sst_put", sst_put(sst.w.v, key, val))
SstDelete(key) == sst.w.some /\ SstWrite("sst_delete", sst_delete(sst.w.v, key))

SstFinish ==
    /\ sst.w.some
    /\ SstStep("sst_finish", sst.w.v.cf_name,
               [sst EXCEPT !.w = None, !.table = sst_finish(sst.w.v)], "ok", FALSE)

SstWriteInit ==
    /\ CodecIdle
    /\ EngineInit(<<CF_TEST>>)

SstWriteNext ==
    /\ UNCHANGED <<codec_vars, hist_vars, write_txn>>
    /\ \/ \E cf_name \in {None, Some(CF_TEST)} : SstBuild(cf_name)
       \/ \E key \in CurKeys, val \in Values : SstPut(key, val)
       \/ \E key \in CurKeys : SstDelete(key)
       \/ SstFinish

SpecSstWrite == SstWriteInit /\ [][SstWriteNext]_vars

(***************************************************************************)
(* Claim about the sorted-table writer (checked under SpecSstWrite).       *)
(***************************************************************************)
\* the keys of the entries es are strictly increasing
StrictlyIncreasing(es) ==
    \A i \in 1..(Len(es) - 1) : LexLess(es[i].key, es[i + 1].key)

\* C24: for every reachable writer and every key, a put or a delete whose
\* physical key is not above the last accepted key returns an error and
\* leaves the writer (entries and last key) as it was, and one whose key is
\* above it (or the first) is accepted as the last entry; the writer's last
\* key is the key of its last entry; the entries of every writer and of
\* every finished table are strictly increasing in physical-key order.
C24_WriterOrdered ==
    /\ sst.w.some =>
           LET w == sst.w.v
           IN  /\ StrictlyIncreasing(w.entries)
               /\ w.entries # <<>> => w.last_key = w.entries[Len(w.entries)].key
               /\ \A key \in CurKeys :
                      LET k == add_cf_prefix(key, w.cf_name)
                          p == sst_put(w, key, 1)
                          d == sst_delete(w, key)
                      IN  IF w.entries # <<>> /\ LexLeq(k, w.last_key)
                          THEN /\ p = Written(w, "engine_err")
                               /\ d = Written(w, "engine_err")
                          ELSE /\ p.res = "ok" /\ d.res = "ok"
                               /\ p.w.entries = Append(w.entries, Entry(k, 1, FALSE))
                               /\ d.w.entries = Append(w.entries, Entry(k, 0, TRUE))
                               /\ p.w.last_key = k /\ d.w.last_key = k
    /\ StrictlyIncreasing(sst.table)

\* C24 witness: a put of the key the writer accepted last was refused by a
\* writer that holds two entries.
C24_Witness ==
    /\ sst.w.some
    /\ ret.op = "sst_put" /\ ret.res = "engine_err"
    /\ Len(sst.w.v.entries) = 2

(***************************************************************************)
(* SpecSstRead: a reader opened on a sorted table that holds live and      *)
(* deleted entries of the two families, and one cursor on it at a time,    *)
(* moved with every seek, seek_for_prev, next and prev.                    *)
(***************************************************************************)
\* the physical keys of the tables
TableKeys == {add_cf_prefix(key, Some(cf)) : key \in SmallKeys, cf \in CfArgs}

\* the entries of the set es in key order
RECURSIVE InKeyOrder(_)
InKeyOrder(es) ==
    IF es = {} THEN <<>>
    ELSE LET m == CHOOSE e \in es : \A q \in es : LexLeq(e.key, q.key)
         IN  <<m>> \o InKeyOrder(es \ {m})

\* every table over TableKeys: each key absent, live (value 1) or deleted
Tables ==
    {InKeyOrder({IF f[pk] = "live" THEN Entry(pk, 1, FALSE) ELSE Entry(pk, 0, TRUE) :
                    pk \in {q \in TableKeys : f[q] # "absent"}}) :
        f \in [TableKeys -> {"absent", "live", "deleted"}]}

SstCreated(op, cf_name, c) ==
    /\ ~sst.it.some
    /\ SstStep(op, cf_name, [sst EXCEPT !.it = Some(c)], "ok", FALSE)

SstIterator ==
    SstCreated("sst_iterator", None, sst_iterator_opt(sst.table, IterOptions(None, None)))
SstIteratorCf(cf) ==
    SstCreated("sst_iterator_cf", Some(cf),
               sst_iterator_cf_opt(sst.table, cf, IterOptions(None, None)))

SstMove(op, m) ==
    /\ sst.it.some
    /\ SstStep(op, sst.it.v.cf_name, [sst EXCEPT !.it = Some(m.it)], m.res, m.out)

SstSeek(sk) == sst.it.some /\ SstMove("sst_seek", sst_seek(sst.it.v, sk))
SstSeekForPrev(sk) ==
    sst.it.some /\ SstMove("sst_seek_for_prev", sst_seek_for_prev(sst.it.v, sk))
SstNext == sst.it.some /\ SstMove("sst_next", sst_next(sst.it.v))
SstPrev == sst.it.some /\ SstMove("sst_prev", sst_prev(sst.it.v))

SstIterDrop ==
    /\ sst.it.some
    /\ SstStep("sst_drop_iterator", None, [sst EXCEPT !.it = None], "ok", FALSE)

SstReadInit ==
    /\ CodecIdle
    /\ EngineNew(<<CF_TEST>>)
    /\ \E t \in Tables : sst = [w |-> None, table |-> t, it |-> None]

SstReadNext ==
    /\ UNCHANGED <<codec_vars, hist_vars, write_txn>>
    /\ \/ SstIterator
       \/ \E cf \in CfArgs : SstIteratorCf(cf)
       \/ \E sk \in SeekKeys(SmallKeys) : SstSeek(sk)
       \/ \E sk \in SeekKeys(SmallKeys) : SstSeekForPrev(sk)
       \/ SstNext
       \/ SstPrev
       \/ SstIterDrop

SpecSstRead == SstReadInit /\ [][SstReadNext]_vars

(***************************************************************************)
(* Claim about the sorted-table cursor (checked under SpecSstRead).        *)
(***************************************************************************)
SstMoveOps == {"sst_seek", "sst_seek_for_prev", "sst_next", "sst_prev"}

\* the entries a traversal yields: from the answer m of a seek, key() and
\* value() are read and the cursor is stepped while the answer is true
RECURSIVE sst_forward(_)
sst_forward(m) ==
    IF m.res # "ok" \/ ~m.out THEN <<>>
    ELSE <<[key |-> sst_key(m.it), value |-> sst_value(m.it)]>>
             \o sst_forward(sst_next(m.it))

RECURSIVE sst_backward(_)
sst_backward(m) ==
    IF m.res # "ok" \/ ~m.out THEN <<>>
    ELSE <<[key |-> sst_key(m.it), value |-> sst_value(m.it)]>>
             \o sst_backward(sst_prev(m.it))

\* the live entries of family cf in the table t, in key order, each as its
\* logical key and value
RECURSIVE LiveOf(_, _)
LiveOf(t, cf) ==
    IF t = <<>> THEN <<>>
    ELSE LET e == Head(t)
             prefix == add_cf_prefix(<<>>, Some(cf))
         IN  (IF ~e.deleted /\ IsPrefix(prefix, e.key)
              THEN <<[key |-> SubSeq(e.key, Len(prefix) + 1, Len(e.key)),
                      value |-> e.value]>>
              ELSE <<>>) \o LiveOf(Tail(t), cf)

Reversed(q) == [i \in 1..Len(q) |-> q[Len(q) + 1 - i]]

\* C25: a move of the cursor that answered true left it on a live entry of
\* its family, whose value it holds; and on every table, for the cursor of
\* either family, the traversal from seek(Start) with next yields exactly
\* the live entries of the family in key order and the traversal from
\* seek(End) with prev yields them in reverse order.
C25_TombstonesSkipped ==
    /\ (sst.it.some /\ ret.op \in SstMoveOps /\ ret.res = "ok" /\ ret.flag) =>
           LET c == sst.it.v
           IN  /\ table_valid(c.table, c.iter)
               /\ ~c.table[c.iter].deleted
               /\ get_cf_and_key(c.table[c.iter].key).cf = FamilyOf(c)
               /\ sst_value(c) = c.table[c.iter].value
    /\ \A cf_name \in {None, Some(CF_DEFAULT), Some(CF_TEST)} :
           LET c == SstCursor(sst.table, IterOptions(None, None), cf_name)
               live == LiveOf(sst.table, FamilyOf(c))
           IN  /\ sst_forward(sst_seek(c, SeekStart)) = live
               /\ sst_backward(sst_seek(c, SeekEnd)) = Reversed(live)

\* C25 witness: on a table that holds one live and one deleted entry of the
\* default family, a next from the live entry answered false.
C25_Witness ==
    /\ sst.table = <<Entry(add_cf_prefix(<<>>, None), 1, FALSE),
                     Entry(add_cf_prefix(<<64>>, None), 0, TRUE)>>
    /\ sst.it.some /\ ~sst.it.v.cf_name.some
    /\ ret.op = "sst_next" /\ ret.res = "ok" /\ ~ret.flag
    /\ sst.it.v.current_value = 1

(***************************************************************************)
(* Claim about the scan (checked under SpecCursor).                        *)
(***************************************************************************)
\* the keys of family cf in the store d
FamilyKeys(d, cf) == {k \in CurKeys : add_cf_prefix(k, Some(cf)) \in DOMAIN d}

\* C26: on every reachable store, for every family and scan range, a scan
\* whose callback stops at its first call hands the callback exactly one
\* entry when a key of the family lies in the range (none otherwise),
\* never calls next(), and leaves its cursor where seek put it, on the
\* first entry that the scan without a stop visits; and a scan that has
\* just returned with such a callback handed it at most one entry.
C26_ScanStopsAtFirst ==
    /\ Idle =>
           \A cf \in CfArgs, b \in CurKeys, e \in CurKeys :
               LET c == iterator_cf_opt(db, cf_names, cf,
                                        IterOptions(Some(b), Some(e))).it.v
                   t == scan_trace(c, b, Some(1))
                   all == scan_trace(c, b, Unlimited)
                   matching == {k \in FamilyKeys(db, cf) : InRange(k, b, e)}
               IN  /\ Len(t.visited) = IF matching = {} THEN 0 ELSE 1
                   /\ t.nexts = 0
                   /\ t.it = seek_key(c, b).it
                   /\ Len(all.visited) = Cardinality(matching)
                   /\ matching # {} => t.visited[1] = all.visited[1]
                   /\ all.visited = scan_cf(db, cf_names, cf, b, e, Unlimited)
    /\ (ret.op = "scan_cf" /\ ret.flag) => ret.out \in {Some(0), Some(1)}

\* C26 witness: a scan whose callback stops at its first call returned
\* having handed it one entry, on a store where three keys match the range.
C26_Witness ==
    /\ ret.op = "scan_cf" /\ ret.flag /\ ret.out = Some(1)
    /\ ret.cf = Some(CF_DEFAULT)
    /\ Cardinality(FamilyKeys(db, CF_DEFAULT)) = 3

(***************************************************************************)
(* Claims about the seeks of a cursor (checked under SpecCursor).  A       *)
(* cursor is compared with the ordered map of the keys of its family that  *)
(* lie within its bounds.                                                  *)
(***************************************************************************)
\* the keys of the cursor's family within its bounds, in the cursor's view
CursorKeys(c) ==
    {k \in CurKeys : /\ add_cf_prefix(k, c.cf_name) \in DOMAIN c.view
                     /\ WithinBounds(k, c.opts)}

SmallestOf(S) == CHOOSE k \in S : \A j \in S : LexLeq(k, j)
LargestOf(S) == CHOOSE k \in S : \A j \in S : LexLeq(j, k)

\* C27: seek(Start) answers true exactly when a key of the cursor's family
\* lies within its bounds, and then leaves the cursor on the smallest one.
C27_SeekStartIsFirst ==
    it.some =>
        LET s == seek_start(it.v)
            S == CursorKeys(it.v)
        IN  /\ s.res = "ok"
            /\ s.out <=> S # {}
            /\ S # {} => key_of(s.it) = SmallestOf(S)

\* C28: seek(End) answers true exactly when a key of the cursor's family
\* lies within its bounds, and then leaves the cursor on the largest one;
\* otherwise it leaves the cursor exhausted.
C28_SeekEndIsLast ==
    it.some =>
        LET s == seek_end(it.v)
            S == CursorKeys(it.v)
        IN  /\ s.res = "ok"
            /\ s.out <=> S # {}
            /\ S # {} => key_of(s.it) = LargestOf(S)
            /\ S = {} => ~valid(s.it)

\* C29: seek_for_prev(Key(k)) answers true exactly when a key of the
\* cursor's family within its bounds is at most k, and then leaves the
\* cursor on the largest such key.
C29_SeekForPrevIsFloor ==
    it.some =>
        \A k \in CurKeys :
            LET s == seek_for_prev_key(it.v, k)
                S == {j \in CursorKeys(it.v) : LexLeq(j, k)}
            IN  /\ s.res = "ok"
                /\ s.out <=> S # {}
                /\ S # {} => key_of(s.it) = LargestOf(S)

(***************************************************************************)
(* Claim about the range delete of the facade and of the batch (checked    *)
(* under SpecCursor).                                                      *)
(***************************************************************************)
\* a batch that holds the single record DeleteRange(begin_key, end_key, cf)
SingleDeleteRange(cf, begin_key, end_key) ==
    [operations |-> <<OpDeleteRange(begin_key, end_key, Some(cf))>>,
     save_points |-> <<>>]

\* C30: on every reachable store, for every family cf and keys
\* begin <= end, delete_range_cf(cf, begin, end) and the write of a batch
\* that holds the single record DeleteRange(begin, end, cf) both succeed
\* and leave the same store.
C30_DeleteRangeAsBatch ==
    \A cf \in CfArgs, b \in CurKeys, e \in CurKeys :
        LexLeq(b, e) =>
            LET facade == delete_range_cf(db, cf_names, cf, b, e, NoFault)
                batch == write_opt(db, SingleDeleteRange(cf, b, e), NoFault)
            IN  /\ facade.res = "ok"
                /\ batch.res = "ok"
                /\ facade.db = batch.db

(***************************************************************************)
(* Claim about an engine failure inside the facade's range delete          *)
(* (checked under Spec).                                                   *)
(***************************************************************************)
\* C31: on every reachable store, a delete_range or delete_range_cf with
\* begin <= end during which one of the deletes of the visited keys fails
\* returns an error and leaves the store as it was.
C31_FailedRangeDeleteCommitsNothing ==
    \A b \in Keys, e \in Keys, f \in Faults :
        LexLeq(b, e) =>
            /\ f.at \in 1..Len(scan(db, b, e, Unlimited)) =>
                   LET r == delete_range(db, b, e, f)
                   IN  r.res # "ok" /\ r.db = db
            /\ \A cf \in cf_names :
                   f.at \in 1..Len(scan_cf(db, cf_names, cf, b, e, Unlimited)) =>
                       LET r == delete_range_cf(db, cf_names, cf, b, e, f)
                       IN  r.res # "ok" /\ r.db = db

(***************************************************************************)
(* Claim about an exhausted cursor (checked under SpecCursor).             *)
(***************************************************************************)
\* the calls that step a cursor
StepOps == {"next", "prev"}

\* C32: when a next or prev has left the cursor with valid() false, the
\* next or prev that follows leaves it with valid() false too.
C32_ExhaustionStable ==
    [][(/\ it.some /\ ret.op \in StepOps /\ ~valid(it.v)
        /\ it'.some /\ ret'.op \in StepOps)
           => ~valid(it'.v)]_vars

(***************************************************************************)
(* Claim about the save-point stack (checked under SpecSave).              *)
(***************************************************************************)
\* every marker of b is at most count() and the markers do not decrease
\* from the bottom of the stack to the top
MarkersInOrder(b) ==
    /\ \A i \in DOMAIN b.save_points : b.save_points[i] <= count(b)
    /\ \A i \in DOMAIN b.save_points, j \in DOMAIN b.save_points :
           i <= j => b.save_points[i] <= b.save_points[j]

\* C33: in every state reached by appends, set_save_point, pop_save_point,
\* rollback_to_save_point, merge, clear and write, every marker of the
\* batch is at most count() and the markers do not decrease from the bottom
\* of the stack to the top; and no rollback_to_save_point step makes the
\* record sequence longer.
C33_SavePointStackOrdered ==
    /\ [](MarkersInOrder(wb))
    /\ [][ret'.op = "wb_rollback" => count(wb') <= count(wb)]_vars

\* C33 witness: a merge has appended records above two outstanding markers
\* that differ.
C33_Witness ==
    /\ ret.op = "wb_merge"
    /\ wb.save_points = <<0, 1>>
    /\ count(wb) = 3

(***************************************************************************)
(* SpecWriteAgain: one caller filling a batch, setting save points and     *)
(* writing it any number of times; a write succeeds or fails at one of     *)
(* its engine calls.                                                       *)
(***************************************************************************)
WriteAgainNext ==
    /\ UNCHANGED <<codec_vars, hist_vars, write_txn, sst>>
    /\ \/ count(wb) < MaxSaveOps /\ SaveAppends
       \/ Len(wb.save_points) < MaxSavePoints /\ WbSetSavePoint
       \/ \E f \in Faults : WbWrite(f)
       \/ WbClear

SpecWriteAgain == SaveInit /\ [][WriteAgainNext]_vars

(***************************************************************************)
(* Claim about what write() does to the batch (checked under               *)
(* SpecWriteAgain).                                                        *)
(***************************************************************************)
\* C34: every write() step, successful or failed, leaves the batch as it
\* was: same records, same count(), same save-point stack; and a write()
\* that succeeds right after another write() leaves the store that the
\* replay of the same records on the store it found gives.
C34_WriteKeepsBatch ==
    /\ [][ret'.op = "wb_write" =>
              /\ wb'.operations = wb.operations
              /\ count(wb') = count(wb)
              /\ wb'.save_points = wb.save_points]_vars
    /\ [][(ret.op = "wb_write" /\ ret'.op = "wb_write" /\ ret'.res = "ok") =>
              db' = replay(wb.operations, db, 0, NoFault).pending]_vars

\* C34 witness: a write() of a batch of two records with a marker
\* outstanding has failed, and the batch still holds them.
C34_Witness ==
    /\ ret.op = "wb_write" /\ ret.res = "engine_err"
    /\ count(wb) = 2
    /\ wb.save_points = <<1>>

(***************************************************************************)
(* Claim about the validity assertion of key() inside the composite        *)
(* operations of the sorted-table cursor (checked under SpecSstRead).      *)
(***************************************************************************)
\* C35: for every table, every cursor on it and every key, seek(End) and
\* seek_for_prev(Key) of the sorted-table cursor call key() only where
\* valid() is true: neither ends in a failed assertion.
C35_KeyAssertHolds ==
    sst.it.some =>
        /\ sst_seek_end(sst.it.v).res # "panic"
        /\ \A k \in SmallKeys : sst_seek_for_prev_key(sst.it.v, k).res # "panic"

(***************************************************************************)
(* SpecRace: the facade's delete_range_cf taken step by step, with puts of *)
(* other threads between its steps.  The scan reads through a cursor       *)
(* created from its own read transaction, a fixed view of the store; the   *)
(* deletes are buffered in the update transaction, which reads nothing,    *)
(* and reach the store at its commit.                                      *)
(***************************************************************************)
\* the physical keys that the deleting callback of delete_range_cf is
\* handed on the store d
RangeDeletes(d, cf, begin_key, end_key) ==
    LET visited == scan_cf(d, cf_names, cf, begin_key, end_key, Unlimited)
    IN  [i \in 1..Len(visited) |-> add_cf_prefix(visited[i].key, Some(cf))]

\* delete_range_cf, lines 184-199: the checks, the transaction, the scan
RangeDeleteScan(cf, begin_key, end_key) ==
    /\ write_txn = None
    /\ IF LexLess(end_key, begin_key) \/ ~check_cf_exist(cf_names, cf)
       THEN /\ ret' = Ret("delete_range_cf", Some(cf),
                          delete_range_cf(db, cf_names, cf, begin_key, end_key,
                                          NoFault).res,
                          None, FALSE, FALSE)
            /\ UNCHANGED write_txn
       ELSE /\ write_txn' = Some([cf |-> cf, begin_key |-> begin_key,
                                  end_key |-> end_key,
                                  deletes |-> RangeDeletes(db, cf, begin_key, end_key)])
            /\ UNCHANGED ret
    /\ UNCHANGED <<cf_names, db, snap, wb, it>>

\* delete_range_cf, lines 201-203: txn.commit()
RangeDeleteCommit ==
    /\ write_txn.some
    /\ db' = DeleteAll(db, write_txn.v.deletes)
    /\ write_txn' = None
    /\ ret' = Ret("delete_range_cf", Some(write_txn.v.cf), "ok", None, FALSE, TRUE)
    /\ UNCHANGED <<cf_names, snap, wb, it>>

RaceInit ==
    /\ CodecIdle
    /\ EngineInit(<<CF_TEST>>)

RaceNext ==
    /\ UNCHANGED <<codec_vars, hist_vars, sst>>
    /\ \/ \E cf \in CfArgs, key \in CurKeys, value \in Values :
              /\ CallWithin(MaxCurEntries, "put_cf", Some(cf),
                            put_cf(db, cf_names, cf, key, value, NoFault))
              /\ UNCHANGED write_txn
       \/ \E cf \in CfArgs, b \in CurKeys, e \in CurKeys : RangeDeleteScan(cf, b, e)
       \/ RangeDeleteCommit

SpecRace == RaceInit /\ [][RaceNext]_vars

\* C36: when a delete_range_cf commits with success, no key of its family
\* in [begin, end) that was in the store before the commit (its put had
\* committed) is in the store after it.
C36_RangeGoneAtCommit ==
    [][(write_txn.some /\ write_txn' = None /\ ret'.res = "ok") =>
          \A k \in CurKeys :
              (/\ InRange(k, write_txn.v.begin_key, write_txn.v.end_key)
               /\ add_cf_prefix(k, Some(write_txn.v.cf)) \in DOMAIN db)
                  => add_cf_prefix(k, Some(write_txn.v.cf)) \notin DOMAIN db']_vars

(***************************************************************************)
(* The loops of the cursors and of the batch's range delete, run with a    *)
(* count of their native cursor steps and stopped when the count reaches   *)
(* a limit: done tells whether the loop ended by itself.                   *)
(***************************************************************************)
Run(done, steps, c, out) == [done |-> done, steps |-> steps, it |-> c, out |-> out]

\* engine.rs, seek(SeekKey::End): while self.valid()? { ..; self.next(); }
RECURSIVE seek_end_run(_, _, _)
seek_end_run(c, limit, steps) ==
    IF ~valid(c) THEN Run(TRUE, steps, c, FALSE)
    ELSE IF steps >= limit THEN Run(FALSE, steps, c, FALSE)
    ELSE seek_end_run(next(c).it, limit, steps + 1)

\* sst.rs, update: the loop that steps over tombstones
RECURSIVE sst_update_run(_, _, _, _)
sst_update_run(c, is_forward, limit, steps) ==
    IF ~table_valid(c.table, c.iter) THEN Run(TRUE, steps, c, FALSE)
    ELSE LET e == c.table[c.iter]
         IN  IF ~cf_name_match(c.cf_name, get_cf_and_key(e.key).cf)
             THEN Run(TRUE, steps, c, FALSE)
             ELSE IF e.deleted
             THEN IF steps >= limit THEN Run(FALSE, steps, c, FALSE)
                  ELSE sst_update_run(
                           [c EXCEPT !.iter = IF is_forward
                                              THEN table_next(c.table, c.iter)
                                              ELSE table_prev(c.table, c.iter)],
                           is_forward, limit, steps + 1)
             ELSE Run(TRUE, steps, [c EXCEPT !.current_value = e.value], TRUE)

\* sst.rs, seek(SeekKey::End): loop { let valid = self.next()?; .. }
RECURSIVE sst_seek_end_loop_run(_, _, _)
sst_seek_end_loop_run(c, limit, steps) ==
    IF ~table_valid(c.table, c.iter) THEN Run(TRUE, steps, c, FALSE)
    ELSE IF steps >= limit THEN Run(FALSE, steps, c, FALSE)
    ELSE LET u == sst_update_run([c EXCEPT !.iter = table_next(c.table, c.iter)],
                                 TRUE, limit, steps + 1)
         IN  IF ~u.done \/ ~u.out THEN u
             ELSE sst_seek_end_loop_run(u.it, limit, u.steps)

\* sst.rs, seek(SeekKey::End) as a whole
sst_seek_end_run(c, limit) ==
    LET first == sst_update_run(
                     [c EXCEPT !.iter = table_seek(c.table,
                                                   add_cf_prefix(<<>>, c.cf_name))],
                     TRUE, limit, 0)
    IN  IF ~first.done \/ ~first.out THEN first
        ELSE LET l == sst_seek_end_loop_run(first.it, limit, first.steps)
             IN  IF ~l.done THEN l
                 ELSE sst_update_run(
                          [l.it EXCEPT !.iter = table_prev(l.it.table, l.it.iter)],
                          FALSE, limit, l.steps + 1)

\* write_batch.rs, DeleteRange arm: while is_valid(&iter) { txn.delete; iter.next() }
RECURSIVE delete_range_run(_, _, _, _, _, _, _, _)
delete_range_run(view, pos, begin_key, end_key, cf, pending, limit, steps) ==
    IF ~is_valid(pos, begin_key, end_key, cf) THEN Run(TRUE, steps, pending, FALSE)
    ELSE IF steps >= limit THEN Run(FALSE, steps, pending, FALSE)
    ELSE delete_range_run(view, iter_next(view, pos), begin_key, end_key, cf,
                          txn_delete(pending, pos.v), limit, steps + 1)

\* the DeleteRange arm on the store d
delete_range_arm_run(d, op, limit) ==
    LET begin_key == add_cf_prefix(op.key, op.cf)
        end_key == add_cf_prefix(op.end_key, op.cf)
    IN  delete_range_run(d, iter_seek(d, begin_key), begin_key, end_key, op.cf,
                         d, limit, 0)

(***************************************************************************)
(* SpecLoops: a store and a sorted table, and one call that runs one of    *)
(* the loops: seek(End) of a cursor of the engine, seek(End) of a cursor   *)
(* of the table, the write of a batch holding one DeleteRange record.      *)
(* The engine's loops do not read the table and the table's loops do not   *)
(* read the store, so one of the two is empty at the start.                *)
(***************************************************************************)
\* the stores that puts of the keys of CurKeys build
LoopKeys == {add_cf_prefix(k, Some(cf)) : k \in CurKeys, cf \in CfArgs}
LoopStores == {[pk \in S |-> 1] : S \in SUBSET LoopKeys}

\* the most native steps a loop over n entries is allowed
StepLimit(n) == 2 * n + 2

LoopsInit ==
    /\ CodecIdle
    /\ cf_names = new_cf_names(<<CF_TEST>>)
    /\ db \in LoopStores
    /\ snap = None
    /\ wb = EmptyBatch
    /\ it = None
    /\ ret = Ret("new", None, "ok", None, FALSE, FALSE)
    /\ write_txn = None
    /\ kv = EmptyStore
    /\ at_snap = EmptyStore
    /\ \E t \in Tables :
           /\ sst = [w |-> None, table |-> t, it |-> None]
           /\ db = EmptyStore \/ t = <<>>

\* iterator_cf_opt, then seek(SeekKey::End); the steps of its loop are kept
LoopSeekEnd(cf, opts) ==
    LET c == iterator_cf_opt(db, cf_names, cf, opts).it.v
        m == seek_end(c)
        first == seek_start(c)
        steps == IF first.out
                 THEN seek_end_run(first.it, StepLimit(Cardinality(DOMAIN db)), 0).steps
                 ELSE 0
    IN  /\ it' = Some(m.it)
        /\ ret' = Ret("seek", Some(cf), m.res, Some(steps), m.out, FALSE)
        /\ UNCHANGED <<cf_names, db, snap, wb, sst>>

\* the reader's iterator_cf_opt, then seek(SeekKey::End)
LoopSstSeekEnd(cf) ==
    LET c == sst_iterator_cf_opt(sst.table, cf, IterOptions(None, None))
        m == sst_seek_end(c)
        steps == sst_seek_end_run(c, StepLimit(Len(sst.table))).steps
    IN  /\ sst' = [sst EXCEPT !.it = Some(m.it)]
        /\ ret' = Ret("sst_seek", Some(cf), m.res, Some(steps), m.out, FALSE)
        /\ UNCHANGED <<cf_names, db, snap, wb, it>>

\* write() of a batch that holds one DeleteRange record
LoopWrite(cf, begin_key, end_key) ==
    LET b == SingleDeleteRange(cf, begin_key, end_key)
        r == write_opt(db, b, NoFault)
        steps == delete_range_arm_run(db, b.operations[1],
                                      StepLimit(Cardinality(DOMAIN db))).steps
    IN  /\ LexLeq(begin_key, end_key)
        /\ wb' = b
        /\ db' = r.db
        /\ ret' = Ret("wb_write", Some(cf), r.res, Some(steps), FALSE, r.txn)
        /\ UNCHANGED <<cf_names, snap, it, sst>>

LoopsNext ==
    /\ UNCHANGED <<codec_vars, hist_vars, write_txn>>
    /\ ret.op = "new"
    /\ \/ \E cf \in CfArgs, lo \in Bounds(CurKeys), up \in Bounds(CurKeys) :
              LoopSeekEnd(cf, IterOptions(lo, up))
       \/ \E cf \in CfArgs : LoopSstSeekEnd(cf)
       \/ \E cf \in CfArgs, b \in CurKeys, e \in CurKeys : LoopWrite(cf, b, e)

SpecLoops == LoopsInit /\ [][LoopsNext]_vars

\* C37: for every store and every table, before any call: seek(End) of
\* every cursor of the engine (every family, every bounds) ends its loop
\* within as many next() calls as the store has entries and leaves the
\* cursor where the loop of seek_end leaves it; seek(End) of every cursor of
\* the table ends, tombstone skipping included, within twice the table's
\* length plus two native steps and gives what sst_seek_end gives; the
\* DeleteRange loop of write() ends within as many steps as the store has
\* entries, having deleted what write_opt deletes; and a call that has
\* returned took no more steps than that (for write(), no more steps than
\* keys are missing from the store).
C37_LoopsFinish ==
    /\ ret.op = "new" =>
           \A cf \in CfArgs :
               /\ \A lo \in Bounds(CurKeys), up \in Bounds(CurKeys) :
                      LET first == seek_start(Cursor(db, IterOptions(lo, up), Some(cf)))
                          r == seek_end_run(first.it,
                                            StepLimit(Cardinality(DOMAIN db)), 0)
                      IN  first.out =>
                              /\ r.done
                              /\ r.steps <= Cardinality(DOMAIN db)
                              /\ r.it = seek_end_loop(first.it, <<>>).it
               /\ LET c == sst_iterator_cf_opt(sst.table, cf, IterOptions(None, None))
                      r == sst_seek_end_run(c, StepLimit(Len(sst.table)))
                  IN  /\ r.done
                      /\ r.steps <= StepLimit(Len(sst.table))
                      /\ r.it = sst_seek_end(c).it
                      /\ r.out = sst_seek_end(c).out
               /\ \A b \in CurKeys, e \in CurKeys :
                      LexLeq(b, e) =>
                          LET r == delete_range_arm_run(
                                       db, OpDeleteRange(b, e, Some(cf)),
                                       StepLimit(Cardinality(DOMAIN db)))
                          IN  /\ r.done
                              /\ r.steps <= Cardinality(DOMAIN db)
                              /\ r.it = write_opt(db, SingleDeleteRange(cf, b, e),
                                                  NoFault).db
    /\ ret.op = "seek" => ret.out.v <= Cardinality(DOMAIN db)
    /\ ret.op = "sst_seek" => ret.out.v <= StepLimit(Len(sst.table))
    /\ ret.op = "wb_write" =>
           ret.out.v + Cardinality(DOMAIN db) <= Cardinality(LoopKeys)

\* C37 witness: a write() of a DeleteRange record has returned after its
\* loop deleted two of the six keys of the store, which it was iterating
\* over.
C37_Witness ==
    /\ ret.op = "wb_write" /\ ret.res = "ok" /\ ret.out = Some(2)
    /\ Cardinality(DOMAIN db) = 4

=============================================================================
